---- MODULE Spec2Model ----
(***************************************************************************)
(* Model of the bar pipeline (src/bar_pipeline.py): TCP line -> _parse_line *)
(* -> bounded asyncio.Queue -> two writer tasks -> fan-out to the sinks,    *)
(* and the shutdown path of main(); the sink classes driven one at a time   *)
(* through write() and close(); _parse_line and build_sinks applied to      *)
(* bounded sets of inputs.                                                  *)
(*                                                                          *)
(* Values of the Python program are tagged records:                         *)
(*   [t |-> "none"]              None                                       *)
(*   [t |-> "str", s |-> chars]  a str, as a sequence of 1-character strings*)
(*   [t |-> "num", v |-> n]      an int or integral float within datetime's *)
(*                               range                                      *)
(*   [t |-> "big"]               a float that is NaN, +-Infinity or beyond  *)
(*                               the range of datetime (1e30)               *)
(*   [t |-> "raise"]             an exception leaving the function          *)
(***************************************************************************)
EXTENDS Integers, Sequences, FiniteSets, TLC

None == [t |-> "none"]
Str(s) == [t |-> "str", s |-> s]
Num(v) == [t |-> "num", v |-> v]
Big == [t |-> "big"]
Raise == [t |-> "raise"]

\* Python truthiness, as used by the `or` chains of _normalize.
Truthy(x) ==
    CASE x.t = "none" -> FALSE
      [] x.t = "str" -> x.s # <<>>
      [] x.t = "num" -> x.v # 0
      [] OTHER -> TRUE

\* a or b
Or(a, b) == IF Truthy(a) THEN a ELSE b

\* dict.get(k): None for an absent key
Get(obj, k) == IF k \in DOMAIN obj THEN obj[k] ELSE None

---------------------------------------------------------------------------
\* Characters and strings

Digits == <<"0", "1", "2", "3", "4", "5", "6", "7", "8", "9">>

IsDigit(c) == \E i \in 1..10 : Digits[i] = c

DigitVal(c) == (CHOOSE i \in 1..10 : Digits[i] = c) - 1

IsSpace(c) == c = " "

\* str.upper() on the letters the inputs use
Upper(c) ==
    CASE c = "e" -> "E"
      [] c = "s" -> "S"
      [] c = "n" -> "N"
      [] c = "q" -> "Q"
      [] c = "z" -> "Z"
      [] OTHER -> c

RECURSIVE LStrip(_)
LStrip(s) == IF s # <<>> /\ IsSpace(Head(s)) THEN LStrip(Tail(s)) ELSE s

RECURSIVE RStrip(_)
RStrip(s) ==
    IF s # <<>> /\ IsSpace(s[Len(s)]) THEN RStrip(SubSeq(s, 1, Len(s) - 1)) ELSE s

\* str.strip()
Strip(s) == LStrip(RStrip(s))

UpperStr(s) == [i \in 1..Len(s) |-> Upper(s[i])]

\* s.replace(c, "")
RECURSIVE Remove(_, _)
Remove(s, c) ==
    IF s = <<>> THEN <<>>
    ELSE IF Head(s) = c THEN Remove(Tail(s), c)
    ELSE <<Head(s)>> \o Remove(Tail(s), c)

RECURSIVE DigitsVal(_)
DigitsVal(s) ==
    IF s = <<>> THEN 0 ELSE 10 * DigitsVal(SubSeq(s, 1, Len(s) - 1)) + DigitVal(s[Len(s)])

AllDigits(s) == s # <<>> /\ \A i \in 1..Len(s) : IsDigit(s[i])

\* str(n) for 0 <= n, padded with zeros to w digits (the %0wd of isoformat)
RECURSIVE Pad(_, _)
Pad(n, w) == IF w = 0 THEN <<>> ELSE Pad(n \div 10, w - 1) \o <<Digits[(n % 10) + 1]>>

---------------------------------------------------------------------------
\* datetime: [y, mo, d, h, mi, s], the naive datetime of the standard library

IsLeap(y) == (y % 4 = 0 /\ y % 100 # 0) \/ y % 400 = 0

DaysInMonth(y, mo) ==
    CASE mo = 2 -> IF IsLeap(y) THEN 29 ELSE 28
      [] mo \in {4, 6, 9, 11} -> 30
      [] OTHER -> 31

ValidDT(dt) ==
    /\ dt.y >= 1 /\ dt.y <= 9999
    /\ dt.mo >= 1 /\ dt.mo <= 12
    /\ dt.d >= 1 /\ dt.d <= DaysInMonth(dt.y, dt.mo)
    /\ dt.h <= 23 /\ dt.mi <= 59 /\ dt.s <= 59

\* datetime.utcfromtimestamp(v) for an integral v (proleptic Gregorian calendar)
UtcFromTimestamp(v) ==
    LET days == v \div 86400
        secs == v % 86400
        z == days + 719468
        era == z \div 146097
        doe == z - era * 146097
        yoe == (doe - doe \div 1460 + doe \div 36524 - doe \div 146096) \div 365
        doy == doe - (365 * yoe + yoe \div 4 - yoe \div 100)
        mp == (5 * doy + 2) \div 153
        d == doy - (153 * mp + 2) \div 5 + 1
        mo == IF mp < 10 THEN mp + 3 ELSE mp - 9
        y == yoe + era * 400 + (IF mo <= 2 THEN 1 ELSE 0)
    IN [y |-> y, mo |-> mo, d |-> d,
        h |-> secs \div 3600, mi |-> (secs % 3600) \div 60, s |-> secs % 60]

\* an isoformat() that writes the year with two digits
IsoFormatShortYear(dt) ==
    Pad(dt.y, 2) \o <<"-">> \o Pad(dt.mo, 2) \o <<"-">> \o Pad(dt.d, 2) \o <<"T">>
    \o Pad(dt.h, 2) \o <<":">> \o Pad(dt.mi, 2) \o <<":">> \o Pad(dt.s, 2)

\* datetime.isoformat() of a datetime without microseconds
IsoFormat(dt) ==
    Pad(dt.y, 4) \o <<"-">> \o Pad(dt.mo, 2) \o <<"-">> \o Pad(dt.d, 2) \o <<"T">>
    \o Pad(dt.h, 2) \o <<":">> \o Pad(dt.mi, 2) \o <<":">> \o Pad(dt.s, 2)

\* s has the shape pat: "d" stands for a digit, "?" for any character
Matches(s, pat) ==
    /\ Len(s) = Len(pat)
    /\ \A i \in 1..Len(pat) :
        CASE pat[i] = "d" -> IsDigit(s[i])
          [] pat[i] = "?" -> TRUE
          [] OTHER -> s[i] = pat[i]

\* the fields of s, the year at yi and the time at hi (0: no time part)
FieldsAt(s, yi, moi, di, hi) ==
    [y |-> DigitsVal(SubSeq(s, yi, yi + 3)),
     mo |-> DigitsVal(SubSeq(s, moi, moi + 1)),
     d |-> DigitsVal(SubSeq(s, di, di + 1)),
     h |-> IF hi = 0 THEN 0 ELSE DigitsVal(SubSeq(s, hi, hi + 1)),
     mi |-> IF hi = 0 THEN 0 ELSE DigitsVal(SubSeq(s, hi + 3, hi + 4)),
     s |-> IF hi = 0 THEN 0 ELSE DigitsVal(SubSeq(s, hi + 6, hi + 7))]

PatDate == <<"d", "d", "d", "d", "-", "d", "d", "-", "d", "d">>
PatTime == <<"d", "d", ":", "d", "d", ":", "d", "d">>
PatSlashDate == <<"d", "d", "d", "d", "/", "d", "d", "/", "d", "d">>
PatPlainDate == <<"d", "d", "d", "d", "d", "d", "d", "d">>

\* datetime.fromisoformat(s): a datetime, or None for ValueError.  Modelled on
\* YYYY-MM-DD and YYYY-MM-DD?HH:MM:SS (any separator character).
FromIsoFormat(s) ==
    LET dt == IF Matches(s, PatDate) THEN FieldsAt(s, 1, 6, 9, 0)
              ELSE FieldsAt(s, 1, 6, 9, 12)
    IN IF (Matches(s, PatDate) \/ Matches(s, PatDate \o <<"?">> \o PatTime)) /\ ValidDT(dt)
       THEN dt ELSE None

\* datetime.strptime(s, fmt) for the four fallback formats of _to_iso, in
\* order; None when all four raise
StrpTimeFallback(s) ==
    LET try(pat, yi, moi, di, hi) ==
            IF Matches(s, pat) /\ ValidDT(FieldsAt(s, yi, moi, di, hi))
            THEN FieldsAt(s, yi, moi, di, hi) ELSE None
        f1 == try(PatDate \o <<" ">> \o PatTime, 1, 6, 9, 12)
        f2 == try(PatDate \o <<"T">> \o PatTime, 1, 6, 9, 12)
        f3 == try(PatSlashDate \o <<" ">> \o PatTime, 1, 6, 9, 12)
        f4 == try(PatPlainDate \o <<" ">> \o PatTime, 1, 5, 7, 10)
    IN IF f1 # None THEN f1 ELSE IF f2 # None THEN f2 ELSE IF f3 # None THEN f3 ELSE f4

\* _to_iso(ts): Str(...), None, or Raise (utcfromtimestamp's OverflowError /
\* ValueError is raised outside any try block)
_to_iso(ts) ==
    CASE ts.t = "none" -> None
      [] ts.t = "str" /\ ts.s = <<>> -> None
      [] ts.t = "num" -> Str(IsoFormat(UtcFromTimestamp(ts.v)) \o <<"Z">>)
      [] ts.t = "big" -> Raise
      [] OTHER ->
           LET iso == FromIsoFormat(Remove(Remove(ts.s, "Z"), "z"))
               alt == StrpTimeFallback(ts.s)
           IN IF iso # None THEN Str(IsoFormat(iso) \o <<"Z">>)
              ELSE IF alt # None THEN Str(IsoFormat(alt) \o <<"Z">>)
              ELSE None

\* _fnum(x): float(x), None when float() raises.  Floats are [t |-> "num"] for
\* an integral value and Big for nan; the inputs carry no fraction or exponent.
_fnum(x) ==
    CASE x.t = "none" -> None
      [] x.t = "num" -> x
      [] x.t = "big" -> Big
      [] OTHER ->
           LET u == Strip(x.s)
           IN IF AllDigits(u) THEN Num(DigitsVal(u))
              ELSE IF u = <<"n", "a", "n">> THEN Big
              ELSE None

required == {"timestamp", "symbol", "open", "high", "low", "close", "volume"}

\* str(n) for an int n >= 0
RECURSIVE Decimal(_)
Decimal(n) == IF n < 10 THEN <<Digits[n + 1]>> ELSE Decimal(n \div 10) \o <<Digits[(n % 10) + 1]>>

\* str(symbol) for the value the `or` chain of _normalize leaves: a str, or a
\* truthy JSON number (non-negative in the inputs)
PyStr(x) ==
    CASE x.t = "str" -> x.s
      [] x.t = "num" -> Decimal(x.v)
      [] OTHER -> <<"n", "a", "n">>

\* out[k] in (None, "")
Missing(x) == x = None \/ x = Str(<<>>)

\* the dict `out` that _normalize builds, before the required-field test
NormalizeOut(obj) ==
    [timestamp |-> _to_iso(Or(Or(Or(Get(obj, "timestamp"), Get(obj, "time")),
                               Get(obj, "date")), Get(obj, "datetime"))),
     symbol |-> Str(UpperStr(Strip(PyStr(Or(Or(Get(obj, "symbol"), Get(obj, "sym")), Str(<<>>)))))),
     open |-> _fnum(Get(obj, "open")),
     high |-> _fnum(Get(obj, "high")),
     low |-> _fnum(Get(obj, "low")),
     close |-> _fnum(Get(obj, "close")),
     volume |-> _fnum(Get(obj, "volume")),
     delta_phi |-> _fnum(Get(obj, "delta_phi")),
     regime |-> Or(Get(obj, "regime"), None),
     capsule_id |-> Or(Get(obj, "capsule_id"), None)]

\* _normalize without its required-field test
NormalizeUnchecked(obj) ==
    IF NormalizeOut(obj).timestamp = Raise THEN Raise ELSE NormalizeOut(obj)

\* _normalize(obj): the record, None when a required field is missing, Raise
\* when _to_iso raises
_normalize(obj) ==
    LET out == NormalizeOut(obj)
    IN IF out.timestamp = Raise THEN Raise
       ELSE IF \E k \in required : Missing(out[k]) THEN None
       ELSE out

---------------------------------------------------------------------------
\* Lines.  A line is given by what the tokenizers (json.loads, csv.reader) make
\* of it:
\*   [enc |-> "blank"]                  empty after strip()
\*   [enc |-> "badjson"]                {...} on which json.loads raises
\*   [enc |-> "json", obj |-> dict]     {...} parsed to a dict
\*   [enc |-> "csv", parts |-> fields]  anything else, split into fields

keys_guess == <<"timestamp", "symbol", "open", "high", "low", "close", "volume">>

\* the dict that _parse_line builds from the CSV fields
CsvData(parts) ==
    [k \in required |->
        LET i == CHOOSE j \in 1..Len(keys_guess) : keys_guess[j] = k
        IN IF i <= Len(parts) THEN Str(parts[i]) ELSE None]

\* _parse_line(line): a record, None, or Raise
_parse_line(line) ==
    CASE line.enc = "blank" -> None
      [] line.enc = "badjson" -> None
      [] line.enc = "json" -> _normalize(line.obj)
      [] OTHER -> _normalize(CsvData(line.parts))

TsIsoZ == <<"2", "0", "2", "4", "-", "0", "1", "-", "0", "2", "T", "1", "0", ":", "0", "0", ":", "0", "0", "Z">>

\* "2024-01-02T10:00:00Z,ES,100,101,99,100,1200"
LineCsvGood ==
    [enc |-> "csv",
     parts |-> <<TsIsoZ, <<"E", "S">>, <<"1", "0", "0">>, <<"1", "0", "1">>, <<"9", "9">>,
                 <<"1", "0", "0">>, <<"1", "2", "0", "0">>>>]

\* "garbage,,,"
LineCsvGarbage == [enc |-> "csv", parts |-> <<<<"g", "a", "r", "b", "a", "g", "e">>, <<>>, <<>>, <<>>>>]

\* {"time": 1704190800, "sym": "nq", "open": 50, "high": 51, "low": 49, "close": 50, "volume": 10}
LineJsonEpoch ==
    [enc |-> "json",
     obj |-> [time |-> Num(1704190800), sym |-> Str(<<"n", "q">>), open |-> Num(50),
              high |-> Num(51), low |-> Num(49), close |-> Num(50), volume |-> Num(10)]]

\* {"timestamp": 1e30, "symbol": "ES", "open": 1, "high": 1, "low": 1, "close": 1, "volume": 1}
LineJsonHugeTs ==
    [enc |-> "json",
     obj |-> [timestamp |-> Big, symbol |-> Str(<<"E", "S">>), open |-> Num(1),
              high |-> Num(1), low |-> Num(1), close |-> Num(1), volume |-> Num(1)]]

\* "2024-01-02T10:00:00Z,  ,1,1,1,1,1": a symbol that is empty after strip()
LineCsvBlankSymbol ==
    [enc |-> "csv",
     parts |-> <<TsIsoZ, <<" ", " ">>, <<"1">>, <<"1">>, <<"1">>, <<"1">>, <<"1">>>>]

LineBlank == [enc |-> "blank"]

LineBadJson == [enc |-> "badjson"]

\* the lines a client may send
Lines ==
    {LineCsvGood, LineJsonEpoch, LineCsvGarbage, LineCsvBlankSymbol, LineBlank,
     LineBadJson, LineJsonHugeTs}

\* _parse_line on each line a client may send
Parsed == [line \in Lines |-> _parse_line(line)]

---------------------------------------------------------------------------
\* The server: serve() and main()
\*
\* All tasks share one event loop, so a task runs alone from one await to the
\* next.  Each action below is one such stretch: a handler from readline to
\* its next readline or to a put that has to wait, a worker from queue.get
\* through the whole fan-out.  The actions interleave freely, which covers
\* every order in which the loop may resume the tasks.

\* connections the listener may accept
Conns == {1, 2}

\* workers = [asyncio.create_task(writer()) for _ in range(2)]
NumWorkers == 2
Workers == 1..NumWorkers

\* bound: lines read over all connections
MaxLines == 3

\* bound: number of configured sinks (the list build_sinks returns is not empty)
NumSinks == 2
SinkIds == 1..NumSinks

\* bound: largest --max-queue value explored.  type=int accepts every int; 0
\* stands for the values <= 0, which asyncio.Queue treats alike
MaxCapacity == 2
Capacities == 0..MaxCapacity

VARIABLES
    phase,      \* "starting", "serving", "stopping", "closing", "exited": where main() is
    exc,        \* the exception that ends asyncio.run(serve(...)), "" for none
    max_queue,  \* args.max_queue
    queue,      \* the asyncio.Queue: rows [conn, seq, rec, enq], oldest first; conn, seq
                \* (the number of the line) and enq (the number of the enqueue) are ghosts
    hpc,        \* per connection: "idle", "open" (in readline), "put" (suspended in queue.put), "closed"
    hrow,       \* per connection: the row its suspended queue.put holds, None otherwise
    hend,       \* per connection: how its handler ended: "", "eof", "error", "cancelled"
    received,   \* metrics.received
    parsed,     \* metrics.parsed
    dropped,    \* metrics.dropped
    wpc,        \* per worker: "get" (in queue.get), "dead" (ended by an exception), "cancelled"
    ndisp,      \* ghost: rows dequeued by the workers so far
    nenq,       \* ghost: rows enqueued by the handlers so far
    fan,        \* ghost: the last fan-out: [worker, row, calls, raised]
    closed,     \* ghost: the sinks on which main() called close(), in call order
    closeRaised, \* ghost: the sinks whose close() raised
    clock,      \* time.time(), in seconds since serve() constructed metrics
    last_log,   \* metrics.last_log
    reports     \* ghost: the clock readings at which maybe_log printed its report

\* the clock and what maybe_log changes
metricvars == <<clock, last_log, reports>>

servervars ==
    <<phase, exc, max_queue, queue, hpc, hrow, hend, received, parsed, dropped,
      wpc, ndisp, nenq, fan, closed, closeRaised, metricvars>>

\* One sink object, driven through write() and close() (SpecSinks)
VARIABLES
    kind,         \* the class of the sink: "stdout", "file", "sqlite", "kafka"; "" for no sink
    now,          \* time.time(), in ticks since the sink was constructed
    today,        \* the date of datetime.utcnow(), as a day number
    nwritten,     \* ghost: write() calls so far; the k-th call writes row k
    wfailed,      \* ghost: the rows whose write() call raised
    errors,       \* ghost: failures the environment has injected so far
    last,         \* ghost: the last call on the sink: [op, raised]
    nclose,       \* ghost: close() calls so far
    late,         \* ghost: write() calls made after a close()
    printed,      \* StdoutSink: the rows printed to stdout
    path_pattern, \* RotatingFileSink.path_pattern
    dirs,         \* the directories that exist (os.makedirs in __init__)
    fp,           \* RotatingFileSink.fp: None or [path, open]
    current_path, \* RotatingFileSink.current_path: None or a path
    files,        \* the file system: path -> rows of the file, in file order
    _batch,       \* SQLiteSink._batch
    _last_flush,  \* SQLiteSink._last_flush
    conn,         \* SQLiteSink.conn: "open" or "closed"
    bars,         \* the committed rows of table bars, in id order
    txn,          \* rows inserted in the connection's open transaction, not committed
    commits,      \* ghost: the rows of each committed transaction, in commit order
    pending,      \* KafkaSink.producer: messages produced and not yet delivered
    delivered,    \* the messages on the broker's topic
    broker_up     \* whether the broker can be reached

sinkvars ==
    <<kind, now, today, nwritten, wfailed, errors, last, nclose, late, printed, path_pattern, dirs, fp,
      current_path, files, _batch, _last_flush, conn, bars, txn, commits, pending,
      delivered, broker_up>>

\* One call of a function of the module (SpecParse, SpecBuild)
VARIABLES
    in_line,    \* the argument of _parse_line: a line; None when no call is under test
    out_rec,    \* what _parse_line(in_line) returned: a record, None or Raise
    out_back,   \* what _parse_line returned for the line a sink emits for out_rec
    sink_arg,   \* args.sink, split at the commas: a sequence of names
    sinks       \* what build_sinks(args) returned: the list of the sinks' classes, or Raise

callvars == <<in_line, out_rec, out_back, sink_arg, sinks>>

\* One TruthLockWriter and the ledger file it appends to (SpecLedger)
VARIABLES
    ledger,     \* the lines of the file at TruthLockWriter.path, in file order
    _tip,       \* TruthLockWriter._tip: the hash of the last line, or None
    returned,   \* what the last write() returned; NotCalled before the first
    nappend     \* ghost: write() calls so far

ledgervars == <<ledger, _tip, returned, nappend>>

vars == <<servervars, sinkvars, callvars, ledgervars>>

\* no sink object is under test
SinkIdle ==
    /\ kind = ""
    /\ now = 0
    /\ today = 0
    /\ nwritten = 0
    /\ wfailed = {}
    /\ errors = 0
    /\ last = [op |-> "", raised |-> FALSE]
    /\ nclose = 0
    /\ late = 0
    /\ printed = <<>>
    /\ path_pattern = None
    /\ dirs = {}
    /\ fp = None
    /\ current_path = None
    /\ files = <<>>
    /\ _batch = <<>>
    /\ _last_flush = 0
    /\ conn = ""
    /\ bars = <<>>
    /\ txn = <<>>
    /\ commits = <<>>
    /\ pending = <<>>
    /\ delivered = <<>>
    /\ broker_up = FALSE

\* the value of a result variable before the call
NotCalled == [t |-> "notcalled"]

\* no function call is under test
CallIdle ==
    /\ in_line = None
    /\ out_rec = NotCalled
    /\ out_back = NotCalled
    /\ sink_arg = <<>>
    /\ sinks = NotCalled

\* no ledger writer is under test
LedgerIdle ==
    /\ ledger = <<>>
    /\ _tip = None
    /\ returned = NotCalled
    /\ nappend = 0

NoFan == [worker |-> 0, row |-> 0, calls |-> <<>>, raised |-> 0]

Init ==
    /\ phase = "starting"
    /\ exc = ""
    /\ max_queue \in Capacities
    /\ queue = <<>>
    /\ hpc = [c \in Conns |-> "idle"]
    /\ hrow = [c \in Conns |-> None]
    /\ hend = [c \in Conns |-> ""]
    /\ received = 0
    /\ parsed = 0
    /\ dropped = 0
    /\ wpc = [w \in Workers |-> "get"]
    /\ ndisp = 0
    /\ nenq = 0
    /\ fan = NoFan
    /\ closed = <<>>
    /\ closeRaised = {}
    /\ clock = 0
    /\ last_log = 0
    /\ reports = <<>>
    /\ SinkIdle
    /\ CallIdle
    /\ LedgerIdle

\* asyncio.Queue.full(): a maxsize <= 0 means an unbounded queue
Full(q, maxsize) == maxsize > 0 /\ Len(q) >= maxsize

\* server = await asyncio.start_server(...); serve_forever()
StartServer ==
    /\ phase = "starting"
    /\ phase' = "serving"
    /\ UNCHANGED <<exc, max_queue, queue, hpc, hrow, hend, received, parsed, dropped,
                   wpc, ndisp, nenq, fan, closed, closeRaised>>
    /\ UNCHANGED <<sinkvars, callvars, ledgervars, metricvars>>

\* start_server raises (the address cannot be bound): serve() ends with the error
StartFail ==
    /\ phase = "starting"
    /\ phase' = "stopping"
    /\ exc' = "OSError"
    /\ UNCHANGED <<max_queue, queue, hpc, hrow, hend, received, parsed, dropped,
                   wpc, ndisp, nenq, fan, closed, closeRaised>>
    /\ UNCHANGED <<sinkvars, callvars, ledgervars, metricvars>>

\* the listener accepts a connection and spawns handle(); connections are
\* numbered in the order they are accepted
Accept(c) ==
    /\ phase = "serving"
    /\ hpc[c] = "idle"
    /\ \A b \in Conns : b < c => hpc[b] # "idle"
    /\ hpc' = [hpc EXCEPT ![c] = "open"]
    /\ UNCHANGED <<phase, exc, max_queue, queue, hrow, hend, received, parsed, dropped,
                   wpc, ndisp, nenq, fan, closed, closeRaised>>
    /\ UNCHANGED <<sinkvars, callvars, ledgervars, metricvars>>

\* a queue that takes new rows at its head
EnqueueFront(q, row) == <<[row EXCEPT !.enq = nenq + 1]>> \o q

\* queue.put_nowait(row): the row joins the tail of the queue; the ghost enq
\* records that it is the (nenq + 1)-th row to be enqueued
Enqueue(q, row) == Append(q, [row EXCEPT !.enq = nenq + 1])

\* handle() with queue.put_nowait(row): QueueFull leaves the loop, the
\* connection is closed and the row is gone
HandlerPutNowait(q, row, maxsize) ==
    IF Full(q, maxsize)
    THEN [queue |-> q, pc |-> "closed", pending |-> None, end |-> "error"]
    ELSE [queue |-> Enqueue(q, row), pc |-> "open", pending |-> None, end |-> ""]

\* await queue.put(row) in handle(): the row is enqueued at once when the queue
\* is not full; otherwise the handler is suspended in put(), holding the row
HandlerPut(q, row, maxsize) ==
    IF Full(q, maxsize)
    THEN [queue |-> q, pc |-> "put", pending |-> row, end |-> ""]
    ELSE [queue |-> Enqueue(q, row), pc |-> "open", pending |-> None, end |-> ""]

\* one pass of handle()'s loop over a line the connection delivers:
\* bump_recv, _parse_line, then bump_dropped or bump_parsed and queue.put.
\* An exception of _parse_line leaves the loop through `except Exception`
\* and the finally block closes the connection.
handle(c, line) ==
    /\ phase \in {"serving", "stopping"}
    /\ hpc[c] = "open"
    /\ received < MaxLines
    /\ received' = received + 1
    /\ LET r == Parsed[line]
           row == [conn |-> c, seq |-> received + 1, rec |-> r, enq |-> 0]
           put == HandlerPut(queue, row, max_queue)
       IN CASE r = Raise ->
                 /\ hpc' = [hpc EXCEPT ![c] = "closed"]
                 /\ hend' = [hend EXCEPT ![c] = "error"]
                 /\ UNCHANGED <<queue, hrow, parsed, dropped, nenq>>
            [] r = None ->
                 /\ dropped' = dropped + 1
                 /\ UNCHANGED <<queue, hpc, hrow, hend, parsed, nenq>>
            [] OTHER ->
                 /\ parsed' = parsed + 1
                 /\ queue' = put.queue
                 /\ nenq' = nenq + Len(put.queue) - Len(queue)
                 /\ hpc' = [hpc EXCEPT ![c] = put.pc]
                 /\ hrow' = [hrow EXCEPT ![c] = put.pending]
                 /\ hend' = [hend EXCEPT ![c] = put.end]
                 /\ UNCHANGED dropped
    /\ UNCHANGED <<phase, exc, max_queue, wpc, ndisp, fan, closed, closeRaised>>
    /\ UNCHANGED <<sinkvars, callvars, ledgervars, metricvars>>

\* a handler suspended in queue.put resumes once the queue has a free slot
PutResume(c) ==
    /\ phase \in {"serving", "stopping"}
    /\ hpc[c] = "put"
    /\ ~Full(queue, max_queue)
    /\ queue' = Enqueue(queue, hrow[c])
    /\ nenq' = nenq + 1
    /\ hpc' = [hpc EXCEPT ![c] = "open"]
    /\ hrow' = [hrow EXCEPT ![c] = None]
    /\ UNCHANGED <<phase, exc, max_queue, hend, received, parsed, dropped, wpc, ndisp, fan,
                   closed, closeRaised>>
    /\ UNCHANGED <<sinkvars, callvars, ledgervars, metricvars>>

\* readline returns b"" (end of stream): the loop breaks, finally closes
HandleEof(c) ==
    /\ phase \in {"serving", "stopping"}
    /\ hpc[c] = "open"
    /\ hpc' = [hpc EXCEPT ![c] = "closed"]
    /\ hend' = [hend EXCEPT ![c] = "eof"]
    /\ UNCHANGED <<phase, exc, max_queue, queue, hrow, received, parsed, dropped, wpc,
                   ndisp, nenq, fan, closed, closeRaised>>
    /\ UNCHANGED <<sinkvars, callvars, ledgervars, metricvars>>

\* a handler whose exception leaves serve() and ends the server
ConnErrorEndsServer(c) ==
    /\ phase = "serving"
    /\ hpc[c] = "open"
    /\ hpc' = [hpc EXCEPT ![c] = "closed"]
    /\ hend' = [hend EXCEPT ![c] = "error"]
    /\ phase' = "stopping"
    /\ exc' = "OSError"
    /\ UNCHANGED <<max_queue, queue, hrow, received, parsed, dropped, wpc,
                   ndisp, nenq, fan, closed, closeRaised>>
    /\ UNCHANGED <<sinkvars, callvars, ledgervars, metricvars>>

\* readline raises (connection reset, over-long line): except Exception, finally closes
HandleConnError(c) ==
    /\ phase \in {"serving", "stopping"}
    /\ hpc[c] = "open"
    /\ hpc' = [hpc EXCEPT ![c] = "closed"]
    /\ hend' = [hend EXCEPT ![c] = "error"]
    /\ UNCHANGED <<phase, exc, max_queue, queue, hrow, received, parsed, dropped, wpc,
                   ndisp, nenq, fan, closed, closeRaised>>
    /\ UNCHANGED <<sinkvars, callvars, ledgervars, metricvars>>

Min(S) == CHOOSE x \in S : \A y \in S : x <= y

\* a fan-out that is suspended after the write on the first sink
FanOutSuspended(bad) == <<1>>

\* a fan-out that walks the list of sinks from its end
FanOutReversed(bad) == [i \in 1..NumSinks |-> NumSinks + 1 - i]

\* the sinks on which writer() calls write for one row, in call order, when
\* `bad` are the sinks whose write raises: the try block encloses the whole
\* for loop, so the first exception ends the loop
FanOutCalls(bad) ==
    IF bad = {} THEN [i \in 1..NumSinks |-> i] ELSE [i \in 1..Min(bad) |-> i]

\* writer() without its except clause: the exception ends the task
WriterDiesOnError(raised) == IF raised # 0 THEN "dead" ELSE "get"

\* where writer() goes after a fan-out, `raised` being 0 or the sink whose
\* write raised: `except Exception` catches it and the loop goes on
WriterAfterFanOut(raised) == "get"

\* a queue.get that takes the newest row
QueueGetNewest(q) == [row |-> q[Len(q)], queue |-> SubSeq(q, 1, Len(q) - 1)]

\* a queue.get that leaves the row in the queue
QueuePeek(q) == [row |-> Head(q), queue |-> q]

\* queue.get() on a queue that is not empty: the oldest row leaves the queue
QueueGet(q) == [row |-> Head(q), queue |-> Tail(q)]

\* if now - self.last_log >= 10
LogEvery == 10

\* maybe_log that prints and leaves last_log as it was
MaybeLogKeepsLastLog(t, ll) ==
    IF t - ll >= LogEvery THEN [print |-> TRUE, last_log |-> ll]
    ELSE [print |-> FALSE, last_log |-> ll]

\* metrics.maybe_log() at clock reading t with last_log = ll: whether the
\* report is printed, and the new last_log
maybe_log(t, ll) ==
    IF t - ll >= LogEvery THEN [print |-> TRUE, last_log |-> t]
    ELSE [print |-> FALSE, last_log |-> ll]

\* one pass of writer()'s loop: queue.get, the fan-out, task_done, maybe_log.
\* There is no await between the get and the end of the pass.  task_done
\* only touches the queue's count of unfinished rows, which is not part of
\* this state.
writer(w, bad) ==
    /\ wpc[w] = "get"
    /\ queue # <<>>
    /\ queue' = QueueGet(queue).queue
    /\ LET raised == IF bad = {} THEN 0 ELSE Min(bad)
       IN /\ ndisp' = ndisp + 1
          /\ fan' = [worker |-> w, row |-> QueueGet(queue).row.enq,
                     calls |-> FanOutCalls(bad), raised |-> raised]
          /\ wpc' = [wpc EXCEPT ![w] = WriterAfterFanOut(raised)]
    /\ last_log' = maybe_log(clock, last_log).last_log
    /\ reports' = IF maybe_log(clock, last_log).print THEN Append(reports, clock) ELSE reports
    /\ UNCHANGED <<phase, exc, max_queue, hpc, hrow, hend, received, parsed, dropped,
                   nenq, closed, closeRaised, clock>>
    /\ UNCHANGED <<sinkvars, callvars, ledgervars>>

\* SIGINT: the main task is cancelled inside serve_forever(); `async with
\* server` closes the listener
Interrupt ==
    /\ phase = "serving"
    /\ phase' = "stopping"
    /\ exc' = "KeyboardInterrupt"
    /\ UNCHANGED <<max_queue, queue, hpc, hrow, hend, received, parsed, dropped, wpc,
                   ndisp, nenq, fan, closed, closeRaised>>
    /\ UNCHANGED <<sinkvars, callvars, ledgervars, metricvars>>

\* worker tasks that survive the end of asyncio.run()
WorkersLeftRunning(wp) == wp

\* the worker tasks once asyncio.run() has cancelled every task that is left
WorkersAfterCancel(wp) == [w \in Workers |-> IF wp[w] = "get" THEN "cancelled" ELSE wp[w]]

\* asyncio.run() ends: the remaining tasks (workers, handlers) are cancelled
\* at their await, the loop is closed, and main() enters its finally block
CancelAll ==
    /\ phase = "stopping"
    /\ phase' = "closing"
    /\ wpc' = WorkersAfterCancel(wpc)
    /\ hpc' = [c \in Conns |-> IF hpc[c] \in {"open", "put"} THEN "closed" ELSE hpc[c]]
    /\ hend' = [c \in Conns |-> IF hpc[c] \in {"open", "put"} THEN "cancelled" ELSE hend[c]]
    /\ hrow' = [c \in Conns |-> None]
    /\ UNCHANGED <<exc, max_queue, queue, received, parsed, dropped, ndisp, nenq, fan, closed,
                   closeRaised>>
    /\ UNCHANGED <<sinkvars, callvars, ledgervars, metricvars>>

\* main()'s finally loop without the try around sink.close(): the first
\* exception ends the loop and leaves main()
CloseAborts(i, raises, e) ==
    [phase |-> IF raises \/ i = NumSinks THEN "exited" ELSE "closing",
     exc |-> IF raises THEN "SinkCloseError" ELSE e]

\* main()'s finally loop after close() of sink i: `except Exception: pass`
\* swallows what close() raised, and the loop goes on to the next sink
CloseOutcome(i, raises, e) ==
    [phase |-> IF i = NumSinks THEN "exited" ELSE "closing", exc |-> e]

\* main()'s finally block closes the next sink
CloseSink(raises) ==
    /\ phase = "closing"
    /\ LET i == Len(closed) + 1
       IN /\ closed' = Append(closed, i)
          /\ closeRaised' = IF raises THEN closeRaised \cup {i} ELSE closeRaised
          /\ phase' = CloseOutcome(i, raises, exc).phase
          /\ exc' = CloseOutcome(i, raises, exc).exc
    /\ UNCHANGED <<max_queue, queue, hpc, hrow, hend, received, parsed, dropped, wpc,
                   ndisp, nenq, fan>>
    /\ UNCHANGED <<sinkvars, callvars, ledgervars, metricvars>>

Next ==
    \/ StartServer
    \/ StartFail
    \/ \E c \in Conns : Accept(c)
    \/ \E c \in Conns, line \in Lines : handle(c, line)
    \/ \E c \in Conns : PutResume(c)
    \/ \E c \in Conns : HandleEof(c)
    \/ \E c \in Conns : HandleConnError(c)
    \/ \E w \in Workers, bad \in SUBSET SinkIds : writer(w, bad)
    \/ Interrupt
    \/ CancelAll
    \/ \E raises \in BOOLEAN : CloseSink(raises)

Spec == Init /\ [][Next]_vars

\* bound: lines read over all connections in the runs of SpecMain and SpecMetrics
MaxRunLines == 2

\* bound: seconds between two readings of the clock
ClockStep == 5

\* bound: length of a run of SpecMetrics, in seconds
MaxClock == 20

\* time passes
ClockTick ==
    /\ clock + ClockStep <= MaxClock
    /\ clock' = clock + ClockStep
    /\ UNCHANGED <<phase, exc, max_queue, queue, hpc, hrow, hend, received, parsed, dropped,
                   wpc, ndisp, nenq, fan, closed, closeRaised, last_log, reports>>
    /\ UNCHANGED <<sinkvars, callvars, ledgervars>>

\* the server while time passes: runs that last up to MaxClock seconds
NextMetrics ==
    \/ ClockTick
    \/ Next /\ received' <= MaxRunLines

SpecMetrics == Init /\ [][NextMetrics]_vars

\* A run without end.  The counters of Metrics and the ghost counts are
\* Python ints that grow with every line; nothing in serve() reads them
\* except the report of maybe_log.  To follow a run beyond MaxLines lines the
\* counts start again whenever the queue is empty: the rows dispatched and the
\* lines dropped so far are forgotten, the rows that suspended handlers hold
\* are still to be enqueued and stay counted.  The queue, the handlers and
\* the workers are left as they are.
CountersRestart ==
    /\ phase = "serving"
    /\ queue = <<>>
    /\ received = MaxLines
    /\ LET held == Cardinality({c \in Conns : hpc[c] = "put"})
       IN /\ received' = held
          /\ parsed' = held
    /\ dropped' = 0
    /\ ndisp' = 0
    /\ nenq' = 0
    /\ fan' = [fan EXCEPT !.row = 0]
    /\ UNCHANGED <<phase, exc, max_queue, queue, hpc, hrow, hend, wpc, closed, closeRaised>>
    /\ UNCHANGED <<sinkvars, callvars, ledgervars, metricvars>>

\* the server as long as no shutdown occurs: serve_forever() is not
\* cancelled and start_server does not fail
NextLive ==
    \/ CountersRestart
    \/ Next /\ phase' \in {"starting", "serving"}

\* The event loop runs every task that is ready: a worker whose queue.get can
\* return gets its pass, and a handler woken in queue.put runs again.  The
\* handler enqueues only if the queue still has a free slot when it runs, so
\* the fairness on PutResume is weak: a slot that is taken before the handler
\* runs does not count.
SpecLive ==
    /\ Init
    /\ [][NextLive]_vars
    /\ \A w \in Workers : WF_vars(\E bad \in SUBSET SinkIds : writer(w, bad))
    /\ \A c \in Conns : WF_vars(PutResume(c))

---------------------------------------------------------------------------
\* The sinks.  One sink object is constructed and then driven through write()
\* and close() in any order, as the Sink interface allows; the clock moves
\* between the calls.  The k-th write() call writes row k: the sinks store a
\* row without looking into it.

\* the server does not run
ServerIdle ==
    /\ phase = "starting"
    /\ exc = ""
    /\ max_queue = 0
    /\ queue = <<>>
    /\ hpc = [c \in Conns |-> "idle"]
    /\ hrow = [c \in Conns |-> None]
    /\ hend = [c \in Conns |-> ""]
    /\ received = 0
    /\ parsed = 0
    /\ dropped = 0
    /\ wpc = [w \in Workers |-> "get"]
    /\ ndisp = 0
    /\ nenq = 0
    /\ fan = NoFan
    /\ closed = <<>>
    /\ closeRaised = {}
    /\ clock = 0
    /\ last_log = 0
    /\ reports = <<>>

\* len(self._batch) >= 250
BatchSize == 250

\* (time.time() - self._last_flush) > 1.0: the interval, in seconds
FlushAfter == 1

\* bound: resolution of the clock, ticks in a second
TicksPerSecond == 2

\* bound: ticks the clock advances over a run
MaxTicks == 3

\* bound: the clock advances only while the batch holds at most this many rows
MaxSlowBatch == 2

\* bound: write() calls on the SQLite sink
MaxBatchWrites == 251

\* bound: write() calls on a sink of another class
MaxWrites == 3

\* bound: write() calls after a close()
MaxLateWrites == 1

\* bound: close() calls
MaxCloses == 2

\* bound: days the date advances over a run
MaxDays == 2

\* bound: failures the environment injects into one run (an insert that
\* raises, a file that cannot be opened or written, a print that raises)
MaxErrors == 1

\* the environment may inject one more failure
MayFail == errors < MaxErrors

\* a write() call is within the bounds
MayWrite(max) ==
    /\ nwritten < max
    /\ nclose > 0 => late < MaxLateWrites

\* the ghost record of a write() call of row r
Written(r, raised) ==
    /\ nwritten' = r
    /\ wfailed' = IF raised THEN wfailed \cup {r} ELSE wfailed
    /\ last' = [op |-> "write", raised |-> raised]
    /\ late' = IF nclose > 0 THEN late + 1 ELSE late
    /\ UNCHANGED nclose

\* the ghost record of a close() call
Closed(raised) ==
    /\ nclose' = nclose + 1
    /\ last' = [op |-> "close", raised |-> raised]
    /\ UNCHANGED <<nwritten, wfailed, late>>

\* SQLiteSink.flush() without _batch.clear()
FlushKeepsBatch(batch, k) ==
    IF batch = <<>> THEN
        [_batch |-> batch, bars |-> bars, txn |-> txn, _last_flush |-> _last_flush,
         commits |-> commits, raised |-> FALSE]
    ELSE IF conn # "open" THEN
        [_batch |-> batch, bars |-> bars, txn |-> txn, _last_flush |-> _last_flush,
         commits |-> commits, raised |-> TRUE]
    ELSE IF k > 0 THEN
        [_batch |-> batch, bars |-> bars, txn |-> txn \o SubSeq(batch, 1, k - 1),
         _last_flush |-> _last_flush, commits |-> commits, raised |-> TRUE]
    ELSE
        [_batch |-> batch, bars |-> bars \o txn \o batch, txn |-> <<>>, _last_flush |-> now,
         commits |-> Append(commits, txn \o batch), raised |-> FALSE]

\* SQLiteSink.flush() on the batch `batch`.  k = 0: the insert succeeds;
\* k > 0: executemany raises at the k-th row of the batch (a constraint, a
\* locked or full database), the rows before it stay inserted in the open
\* transaction.  On a closed connection conn.cursor() raises.  An exception
\* leaves before commit(), _batch.clear() and the update of _last_flush.
\* commit() commits everything the open transaction holds.
flush(batch, k) ==
    IF batch = <<>> THEN
        [_batch |-> batch, bars |-> bars, txn |-> txn, _last_flush |-> _last_flush,
         commits |-> commits, raised |-> FALSE]
    ELSE IF conn # "open" THEN
        [_batch |-> batch, bars |-> bars, txn |-> txn, _last_flush |-> _last_flush,
         commits |-> commits, raised |-> TRUE]
    ELSE IF k > 0 THEN
        [_batch |-> batch, bars |-> bars, txn |-> txn \o SubSeq(batch, 1, k - 1),
         _last_flush |-> _last_flush, commits |-> commits, raised |-> TRUE]
    ELSE
        [_batch |-> <<>>, bars |-> bars \o txn \o batch, txn |-> <<>>, _last_flush |-> now,
         commits |-> Append(commits, txn \o batch), raised |-> FALSE]

\* the outcomes of an insert of `batch`: 0, or the row at which it raises (the
\* first or the last)
InsertOutcomes(batch) ==
    {0} \cup (IF batch # <<>> /\ conn = "open" /\ MayFail THEN {1, Len(batch)} ELSE {})

\* the condition of SQLiteSink.write with a batch that is due one row late
FlushDueLate(batch) ==
    Len(batch) > BatchSize \/ (now - _last_flush) > FlushAfter * TicksPerSecond

\* the condition of SQLiteSink.write: the batch is full, or more than 1.0 s
\* have passed since the last flush
FlushDue(batch) ==
    Len(batch) >= BatchSize \/ (now - _last_flush) > FlushAfter * TicksPerSecond

\* SQLiteSink.write(row): append, then flush when due
SQLiteWrite(k) ==
    /\ kind = "sqlite"
    /\ MayWrite(MaxBatchWrites)
    /\ LET row == nwritten + 1
           batch == Append(_batch, row)
           f == flush(batch, k)
       IN IF FlushDue(batch)
          THEN /\ _batch' = f._batch
               /\ bars' = f.bars
               /\ txn' = f.txn
               /\ _last_flush' = f._last_flush
               /\ commits' = f.commits
               /\ errors' = IF k > 0 THEN errors + 1 ELSE errors
               /\ Written(row, f.raised)
          ELSE /\ k = 0
               /\ _batch' = batch
               /\ Written(row, FALSE)
               /\ UNCHANGED <<bars, txn, _last_flush, commits, errors>>
    /\ UNCHANGED <<kind, now, today, printed, path_pattern, dirs, fp, current_path, files, conn,
                   pending, delivered, broker_up>>
    /\ UNCHANGED <<servervars, callvars, ledgervars>>

\* SQLiteSink.close(): flush, then conn.close(), which rolls back what the
\* open transaction holds; closing a closed connection does nothing
SQLiteClose(k) ==
    /\ kind = "sqlite"
    /\ nclose < MaxCloses
    /\ LET f == flush(_batch, k)
       IN /\ _batch' = f._batch
          /\ bars' = f.bars
          /\ _last_flush' = f._last_flush
          /\ commits' = f.commits
          /\ txn' = IF f.raised THEN f.txn ELSE <<>>
          /\ conn' = IF f.raised THEN conn ELSE "closed"
          /\ errors' = IF k > 0 THEN errors + 1 ELSE errors
          /\ Closed(f.raised)
    /\ UNCHANGED <<kind, now, today, printed, path_pattern, dirs, fp, current_path, files,
                   pending, delivered, broker_up>>
    /\ UNCHANGED <<servervars, callvars, ledgervars>>

\* time passes between two calls
Tick ==
    /\ kind = "sqlite"
    /\ now < MaxTicks
    /\ Len(_batch) <= MaxSlowBatch
    /\ now' = now + 1
    /\ UNCHANGED <<kind, today, nwritten, wfailed, errors, last, nclose, late, printed,
                   path_pattern, dirs, fp, current_path, files, _batch, _last_flush, conn, bars,
                   txn, commits, pending, delivered, broker_up>>
    /\ UNCHANGED <<servervars, callvars, ledgervars>>

\* --file-path: the default out/bars_%Y%m%d.ndjson, a template without a date
\* pattern (out/bars.ndjson), and a template with the date pattern in the
\* directory part (out/%Y%m%d/bars.ndjson)
Templates ==
    {[dir |-> "out", dated |-> TRUE, indir |-> FALSE],
     [dir |-> "out", dated |-> FALSE, indir |-> FALSE],
     [dir |-> "out", dated |-> TRUE, indir |-> TRUE]}

\* RotatingFileSink._render_path(): utcnow().strftime(path_pattern): the
\* directory of the path, with the date when the pattern has it in the
\* directory part, and the date of the path; day 0 stands for "no date"
_render_path ==
    [dir |-> <<path_pattern.dir, IF path_pattern.indir THEN today ELSE 0>>,
     day |-> IF path_pattern.dated THEN today ELSE 0]

\* open(path, "a"): the file is created when it does not exist
Create(fs, path) == IF path \in DOMAIN fs THEN fs ELSE fs @@ (path :> <<>>)

\* fp.close()
CloseFp(f) == IF f = None THEN None ELSE [f EXCEPT !.open = FALSE]

\* RotatingFileSink._ensure_fp(): when the rendered path differs from
\* current_path the old handle is closed, current_path is set, and then the
\* new file is opened.  open() raises when the environment makes it fail and
\* when the directory of the path does not exist: open does not create
\* directories, and only __init__ calls os.makedirs
_ensure_fp(openfails) ==
    IF _render_path = current_path THEN
        [fp |-> fp, current_path |-> current_path, files |-> files, raised |-> FALSE]
    ELSE IF openfails \/ _render_path.dir \notin dirs THEN
        [fp |-> CloseFp(fp), current_path |-> _render_path, files |-> files, raised |-> TRUE]
    ELSE
        [fp |-> [path |-> _render_path, open |-> TRUE], current_path |-> _render_path,
         files |-> Create(files, _render_path), raised |-> FALSE]

\* RotatingFileSink.write(row): _ensure_fp, the assertion, fp.write (line
\* buffered: the line is in the file when write returns).  fp.write raises on a
\* closed handle, or when the environment makes it fail
FileWrite(openfails, writefails) ==
    /\ kind = "file"
    /\ MayWrite(MaxWrites)
    /\ openfails => MayFail /\ _render_path # current_path /\ _render_path.dir \in dirs
    /\ writefails => MayFail /\ ~openfails
    /\ LET row == nwritten + 1
           e == _ensure_fp(openfails)
           usable == IF e.fp = None THEN FALSE ELSE e.fp.open
           raised == e.raised \/ ~usable \/ writefails
       IN /\ fp' = e.fp
          /\ current_path' = e.current_path
          /\ files' = IF raised THEN e.files
                      ELSE [e.files EXCEPT ![e.fp.path] = Append(@, row)]
          /\ errors' = IF openfails \/ writefails THEN errors + 1 ELSE errors
          /\ Written(row, raised)
    /\ UNCHANGED <<kind, now, today, printed, path_pattern, dirs, _batch, _last_flush, conn, bars,
                   txn, commits, pending, delivered, broker_up>>
    /\ UNCHANGED <<servervars, callvars, ledgervars>>

\* RotatingFileSink.close() without the `if self.fp` test: closing a handle
\* that is None raises
FileCloseUnguarded(f) == [fp |-> None, raised |-> f = None]

\* RotatingFileSink.close(): if self.fp: self.fp.close(); self.fp = None
FileCloseResult(f) == [fp |-> None, raised |-> FALSE]

FileClose ==
    /\ kind = "file"
    /\ nclose < MaxCloses
    /\ fp' = FileCloseResult(fp).fp
    /\ Closed(FileCloseResult(fp).raised)
    /\ UNCHANGED <<kind, now, today, errors, printed, path_pattern, dirs, current_path, files,
                   _batch, _last_flush, conn, bars, txn, commits, pending, delivered,
                   broker_up>>
    /\ UNCHANGED <<servervars, callvars, ledgervars>>

\* the UTC date changes between two calls
Midnight ==
    /\ kind = "file"
    /\ today < MaxDays
    /\ today' = today + 1
    /\ UNCHANGED <<kind, now, nwritten, wfailed, errors, last, nclose, late, printed,
                   path_pattern, dirs, fp, current_path, files, _batch, _last_flush, conn, bars,
                   txn, commits, pending, delivered, broker_up>>
    /\ UNCHANGED <<servervars, callvars, ledgervars>>

\* StdoutSink.write(row): print, which raises when stdout is broken
StdoutWrite(raises) ==
    /\ kind = "stdout"
    /\ MayWrite(MaxWrites)
    /\ raises => MayFail
    /\ printed' = IF raises THEN printed ELSE Append(printed, nwritten + 1)
    /\ errors' = IF raises THEN errors + 1 ELSE errors
    /\ Written(nwritten + 1, raises)
    /\ UNCHANGED <<kind, now, today, path_pattern, dirs, fp, current_path, files, _batch,
                   _last_flush, conn, bars, txn, commits, pending, delivered, broker_up>>
    /\ UNCHANGED <<servervars, callvars, ledgervars>>

\* Sink.close(), which StdoutSink inherits: pass
StdoutClose ==
    /\ kind = "stdout"
    /\ nclose < MaxCloses
    /\ Closed(FALSE)
    /\ UNCHANGED <<kind, now, today, errors, printed, path_pattern, dirs, fp, current_path, files,
                   _batch, _last_flush, conn, bars, txn, commits, pending, delivered,
                   broker_up>>
    /\ UNCHANGED <<servervars, callvars, ledgervars>>

\* KafkaSink.write(row): producer.produce puts the message on the producer's
\* local queue, or raises BufferError when that queue is full; poll(0) serves
\* delivery callbacks, of which there are none
KafkaWrite(raises) ==
    /\ kind = "kafka"
    /\ MayWrite(MaxWrites)
    /\ raises => MayFail
    /\ pending' = IF raises THEN pending ELSE Append(pending, nwritten + 1)
    /\ errors' = IF raises THEN errors + 1 ELSE errors
    /\ Written(nwritten + 1, raises)
    /\ UNCHANGED <<kind, now, today, printed, path_pattern, dirs, fp, current_path, files, _batch,
                   _last_flush, conn, bars, txn, commits, delivered, broker_up>>
    /\ UNCHANGED <<servervars, callvars, ledgervars>>

\* the producer's background thread delivers the oldest message
KafkaDeliver ==
    /\ kind = "kafka"
    /\ broker_up
    /\ pending # <<>>
    /\ pending' = Tail(pending)
    /\ delivered' = Append(delivered, Head(pending))
    /\ UNCHANGED <<kind, now, today, nwritten, wfailed, errors, last, nclose, late, printed,
                   path_pattern, dirs, fp, current_path, files, _batch, _last_flush, conn, bars,
                   txn, commits, broker_up>>
    /\ UNCHANGED <<servervars, callvars, ledgervars>>

\* KafkaSink.close(): producer.flush(5) waits until the local queue is
\* delivered; with the broker out of reach it returns after 5 s and the
\* messages stay queued
KafkaClose ==
    /\ kind = "kafka"
    /\ nclose < MaxCloses
    /\ pending' = IF broker_up THEN <<>> ELSE pending
    /\ delivered' = IF broker_up THEN delivered \o pending ELSE delivered
    /\ Closed(FALSE)
    /\ UNCHANGED <<kind, now, today, errors, printed, path_pattern, dirs, fp, current_path, files,
                   _batch, _last_flush, conn, bars, txn, commits, broker_up>>
    /\ UNCHANGED <<servervars, callvars, ledgervars>>

\* the sink classes
SinkClasses == {"stdout", "file", "sqlite", "kafka"}

\* a sink of one of the classes, as its constructor leaves it
InitSinks ==
    /\ ServerIdle
    /\ CallIdle
    /\ LedgerIdle
    /\ kind \in SinkClasses
    /\ now = 0
    /\ today = IF kind = "file" THEN 1 ELSE 0
    /\ nwritten = 0
    /\ wfailed = {}
    /\ errors = 0
    /\ last = [op |-> "", raised |-> FALSE]
    /\ nclose = 0
    /\ late = 0
    /\ printed = <<>>
    /\ path_pattern \in (IF kind = "file" THEN Templates ELSE {None})
    /\ dirs = IF kind = "file" THEN {_render_path.dir} ELSE {}
    /\ fp = None
    /\ current_path = None
    /\ files = <<>>
    /\ _batch = <<>>
    /\ _last_flush = 0
    /\ conn = IF kind = "sqlite" THEN "open" ELSE ""
    /\ bars = <<>>
    /\ txn = <<>>
    /\ commits = <<>>
    /\ pending = <<>>
    /\ delivered = <<>>
    /\ broker_up \in (IF kind = "kafka" THEN BOOLEAN ELSE {FALSE})

NextSinks ==
    \/ \E k \in InsertOutcomes(Append(_batch, nwritten + 1)) : SQLiteWrite(k)
    \/ \E k \in InsertOutcomes(_batch) : SQLiteClose(k)
    \/ Tick
    \/ \E openfails, writefails \in BOOLEAN : FileWrite(openfails, writefails)
    \/ FileClose
    \/ Midnight
    \/ \E raises \in BOOLEAN : StdoutWrite(raises)
    \/ StdoutClose
    \/ \E raises \in BOOLEAN : KafkaWrite(raises)
    \/ KafkaDeliver
    \/ KafkaClose

SpecSinks == InitSinks /\ [][NextSinks]_vars

---------------------------------------------------------------------------
\* _parse_line applied to a line, and again to the line a sink emits for the
\* record it returned (SpecParse)

\* a key that the object of a line does not have
Absent == [t |-> "absent"]

\* the dict {k: v}, empty when the key is left out
Entry(k, v) == IF v = Absent THEN <<>> ELSE (k :> v)

\* "2024-01-02T10:00:00"
TsT == SubSeq(TsIsoZ, 1, 19)

\* "2024-01-02 10:00:00"
TsSpace == [TsT EXCEPT ![11] = " "]

\* "2024/01/02 10:00:00"
TsSlash == [TsSpace EXCEPT ![5] = "/", ![8] = "/"]

\* "20240102 10:00:00"
TsPlain == Remove(SubSeq(TsIsoZ, 1, 10), "-") \o SubSeq(TsSpace, 11, 19)

\* "2024-01-02"
TsDate == SubSeq(TsIsoZ, 1, 10)

\* "2024-13-02T10:00:00Z": no month 13
TsBadMonth == [TsIsoZ EXCEPT ![6] = "1", ![7] = "3"]

Garbage == <<"g", "a", "r", "b", "a", "g", "e">>

\* timestamps as a structured-object line may give them: the ISO-8601 form
\* with and without Z, the fallback formats, a date, epoch seconds
\* (1704190800, 0, 1e30), strings in no accepted form, "", null, no key
JsonTimestamps ==
    {Str(TsIsoZ), Str(TsT), Str(TsSpace), Str(TsSlash), Str(TsPlain), Str(TsDate),
     Num(1704190800), Num(0), Big, Str(Garbage), Str(TsBadMonth), Str(<<>>), None, Absent}

\* the keys _normalize reads the timestamp from
TimestampKeys == {"timestamp", "time", "date", "datetime"}

\* symbols: "ES", " nq ", "  ", "", no key
Symbols == {Str(<<"E", "S">>), Str(<<" ", "n", "q", " ">>), Str(<<" ", " ">>), Str(<<>>), Absent}

\* the keys _normalize reads the symbol from
SymbolKeys == {"symbol", "sym"}

\* values of a numeric field: 100, "100", " 100 ", 0, "nan", "abc", null, no key
JsonNumbers ==
    {Num(100), Str(<<"1", "0", "0">>), Str(<<" ", "1", "0", "0", " ">>), Num(0),
     Str(<<"n", "a", "n">>), Str(<<"a", "b", "c">>), None, Absent}

\* the numeric fields that take these values; the others hold 1
VariedFields == {"open", "volume"}

\* the optional fields: left out, or delta_phi = "abc", regime = "bull",
\* capsule_id = 7
Optionals ==
    {<<>>,
     [delta_phi |-> Str(<<"a", "b", "c">>), regime |-> Str(<<"b", "u", "l", "l">>),
      capsule_id |-> Num(7)]}

\* the structured-object line with these fields, as json.loads returns it
JsonLine(tk, ts, sk, sym, nf, nv, opt) ==
    [enc |-> "json",
     obj |-> Entry(tk, ts) @@ Entry(sk, sym) @@ Entry(nf, nv) @@ opt
             @@ [k \in {"open", "high", "low", "close", "volume"} \ {nf} |-> Num(1)]]

JsonLines ==
    {JsonLine(tk, ts, sk, sym, nf, nv, opt) :
        tk \in TimestampKeys, ts \in JsonTimestamps, sk \in SymbolKeys, sym \in Symbols,
        nf \in VariedFields, nv \in JsonNumbers, opt \in Optionals}

\* what a CSV line can give of these: strings
CsvStrings(S) == {x.s : x \in {y \in S : y.t = "str"}}

\* the CSV line with these fields, cut to n fields, as csv.reader returns it
CsvLine(ts, sym, o, v, n) ==
    [enc |-> "csv", parts |-> SubSeq(<<ts, sym, o, <<"1">>, <<"1">>, <<"1">>, v, <<"9">>>>, 1, n)]

CsvLines ==
    {CsvLine(ts, sym, o, v, n) :
        ts \in CsvStrings(JsonTimestamps), sym \in CsvStrings(Symbols),
        o \in CsvStrings(JsonNumbers), v \in CsvStrings(JsonNumbers), n \in 6..8}

\* the lines _parse_line is applied to
ParseLines == Lines \cup JsonLines \cup CsvLines

\* the fields that _fnum has made floats
FloatFields == {"open", "high", "low", "close", "volume", "delta_phi"}

\* json.dumps of the value of field k: null, a quoted string, NaN, the repr of
\* a float (an integral float ends in .0) or of an int
JsonDumpsValue(k, x) ==
    CASE x.t = "none" -> <<"n", "u", "l", "l">>
      [] x.t = "str" -> <<"\"">> \o x.s \o <<"\"">>
      [] x.t = "big" -> <<"N", "a", "N">>
      [] OTHER -> IF k \in FloatFields THEN Decimal(x.v) \o <<".", "0">> ELSE Decimal(x.v)

\* the digits of a number token up to its decimal point
RECURSIVE IntPart(_)
IntPart(text) ==
    IF text = <<>> \/ Head(text) = "." THEN <<>> ELSE <<Head(text)>> \o IntPart(Tail(text))

\* json.loads of such a token
JsonLoadsValue(text) ==
    IF text = <<"n", "u", "l", "l">> THEN None
    ELSE IF Head(text) = "\"" THEN Str(SubSeq(text, 2, Len(text) - 1))
    ELSE IF text = <<"N", "a", "N">> THEN Big
    ELSE Num(DigitsVal(IntPart(text)))

\* the line StdoutSink and RotatingFileSink emit for the record r,
\* json.dumps(r, separators=(",", ":")), as json.loads returns it
Emitted(r) ==
    [enc |-> "json", obj |-> [k \in DOMAIN r |-> JsonLoadsValue(JsonDumpsValue(k, r[k]))]]

\* _parse_line(in_line)
ParseLine ==
    /\ in_line # None
    /\ out_rec = NotCalled
    /\ out_rec' = _parse_line(in_line)
    /\ UNCHANGED <<in_line, out_back, sink_arg, sinks>>
    /\ UNCHANGED ledgervars
    /\ UNCHANGED <<servervars, sinkvars>>

\* _parse_line on the line emitted for the record
ParseEmitted ==
    /\ out_rec \notin {NotCalled, None, Raise}
    /\ out_back = NotCalled
    /\ out_back' = _parse_line(Emitted(out_rec))
    /\ UNCHANGED <<in_line, out_rec, sink_arg, sinks>>
    /\ UNCHANGED ledgervars
    /\ UNCHANGED <<servervars, sinkvars>>

InitParse ==
    /\ ServerIdle
    /\ SinkIdle
    /\ in_line \in ParseLines
    /\ out_rec = NotCalled
    /\ out_back = NotCalled
    /\ sink_arg = <<>>
    /\ sinks = NotCalled
    /\ LedgerIdle

NextParse == ParseLine \/ ParseEmitted

SpecParse == InitParse /\ [][NextParse]_vars

---------------------------------------------------------------------------
\* build_sinks applied to a --sink argument (SpecBuild)

\* str.lower() on the letters the names use
Lower(c) ==
    CASE c = "F" -> "f"
      [] c = "K" -> "k"
      [] c = "A" -> "a"
      [] OTHER -> c

LowerStr(s) == [i \in 1..Len(s) |-> Lower(s[i])]

\* s.split(","): the pieces between the commas, at least one
RECURSIVE Split(_)
Split(s) ==
    IF \A i \in 1..Len(s) : s[i] # "," THEN <<s>>
    ELSE LET i == CHOOSE j \in 1..Len(s) : s[j] = "," /\ \A h \in 1..(j - 1) : s[h] # ","
         IN <<SubSeq(s, 1, i - 1)>> \o Split(SubSeq(s, i + 1, Len(s)))

\* the names build_sinks knows, and the class it constructs for each
SinkOf(n) ==
    CASE n = <<"s", "t", "d", "o", "u", "t">> -> "stdout"
      [] n = <<"f", "i", "l", "e">> -> "file"
      [] n = <<"s", "q", "l", "i", "t", "e">> -> "sqlite"
      [] n = <<"k", "a", "f", "k", "a">> -> "kafka"
      [] OTHER -> ""

\* a Python list
List(v) == [t |-> "list", v |-> v]

\* the loop of build_sinks over the names that are left: the list of sinks, or
\* Raise when the constructor of a class in `broken` is called
RECURSIVE BuildLoop(_, _, _)
BuildLoop(names, acc, broken) ==
    IF names = <<>> THEN List(acc)
    ELSE LET n == LowerStr(Strip(Head(names)))
         IN IF SinkOf(n) = "" THEN BuildLoop(Tail(names), acc, broken)
            ELSE IF SinkOf(n) \in broken THEN Raise
            ELSE BuildLoop(Tail(names), Append(acc, SinkOf(n)), broken)

\* build_sinks without `if not sinks: sinks.append(StdoutSink())`
BuildSinksNoFallback(arg, broken) == BuildLoop(Split(arg), <<>>, broken)

\* build_sinks(args) for args.sink = arg: the classes of the sinks it returns,
\* in order; Raise when a constructor raises
build_sinks(arg, broken) ==
    LET built == BuildLoop(Split(arg), <<>>, broken)
    IN IF built = List(<<>>) THEN List(<<"stdout">>) ELSE built

\* bound: names in the --sink argument
MaxNames == 3

\* names as the user may write them: stdout, " File ", sqlite, KAFKA, bogus, ""
ArgNames ==
    {<<"s", "t", "d", "o", "u", "t">>, <<" ", "F", "i", "l", "e", " ">>,
     <<"s", "q", "l", "i", "t", "e">>, <<"K", "A", "F", "K", "A">>,
     <<"b", "o", "g", "u", "s">>, <<>>}

\* ",".join(names)
RECURSIVE Join(_)
Join(names) ==
    IF Len(names) = 1 THEN names[1] ELSE names[1] \o <<",">> \o Join(Tail(names))

\* the --sink arguments: up to MaxNames names, joined by commas
SinkArgs == {Join(names) : names \in UNION {[1..n -> ArgNames] : n \in 1..MaxNames}}

\* the classes whose constructor can raise: the directory cannot be made, the
\* database cannot be opened, confluent_kafka is not installed
Breakable == {"file", "sqlite", "kafka"}

\* sinks = build_sinks(args)
BuildSinks(broken) ==
    /\ sinks = NotCalled
    /\ sinks' = build_sinks(sink_arg, broken)
    /\ UNCHANGED <<in_line, out_rec, out_back, sink_arg>>
    /\ UNCHANGED ledgervars
    /\ UNCHANGED <<servervars, sinkvars>>

InitBuild ==
    /\ ServerIdle
    /\ SinkIdle
    /\ in_line = None
    /\ out_rec = NotCalled
    /\ out_back = NotCalled
    /\ sink_arg \in SinkArgs
    /\ sinks = NotCalled
    /\ LedgerIdle

NextBuild == \E broken \in SUBSET Breakable : BuildSinks(broken)

SpecBuild == InitBuild /\ [][NextBuild]_vars

---------------------------------------------------------------------------
\* main() from the parsed arguments to its exit (SpecMain): build_sinks, then
\* the server of Spec

\* the --sink arguments of these runs: NumSinks names, the console sink each
\* time but for the last, which is the console sink or the broker sink
MainArgs ==
    {Join([i \in 1..NumSinks |-> IF i < NumSinks THEN <<"s", "t", "d", "o", "u", "t">> ELSE n]) :
        n \in {<<"s", "t", "d", "o", "u", "t">>, <<"K", "A", "F", "K", "A">>}}

\* main() that goes on to asyncio.run(serve(...)) whatever build_sinks did
MainStartsAnyway(built) ==
    [phase |-> "starting", exc |-> "", wpc |-> [w \in Workers |-> "get"]]

\* main() after `sinks = build_sinks(args)`, which stands outside the try
\* block: an exception of build_sinks leaves main() before asyncio.run is
\* reached; otherwise serve() begins and creates the worker tasks
MainAfterBuild(built) ==
    IF built = Raise
    THEN [phase |-> "exited", exc |-> "SinkInitError", wpc |-> [w \in Workers |-> "none"]]
    ELSE [phase |-> "starting", exc |-> "", wpc |-> [w \in Workers |-> "get"]]

\* main() from parse_args to the first await of serve()
MainBuild(broken) ==
    /\ phase = "main"
    /\ sinks' = build_sinks(sink_arg, broken)
    /\ phase' = MainAfterBuild(sinks').phase
    /\ exc' = MainAfterBuild(sinks').exc
    /\ wpc' = MainAfterBuild(sinks').wpc
    /\ UNCHANGED <<max_queue, queue, hpc, hrow, hend, received, parsed, dropped, ndisp, nenq, fan,
                   closed, closeRaised>>
    /\ UNCHANGED <<in_line, out_rec, out_back, sink_arg>>
    /\ UNCHANGED ledgervars
    /\ UNCHANGED <<sinkvars, metricvars>>

\* the process before main() has built the sinks: no task exists
InitMain ==
    /\ phase = "main"
    /\ exc = ""
    /\ max_queue \in Capacities
    /\ queue = <<>>
    /\ hpc = [c \in Conns |-> "idle"]
    /\ hrow = [c \in Conns |-> None]
    /\ hend = [c \in Conns |-> ""]
    /\ received = 0
    /\ parsed = 0
    /\ dropped = 0
    /\ wpc = [w \in Workers |-> "none"]
    /\ ndisp = 0
    /\ nenq = 0
    /\ fan = NoFan
    /\ closed = <<>>
    /\ closeRaised = {}
    /\ clock = 0
    /\ last_log = 0
    /\ reports = <<>>
    /\ SinkIdle
    /\ in_line = None
    /\ out_rec = NotCalled
    /\ out_back = NotCalled
    /\ sink_arg \in MainArgs
    /\ sinks = NotCalled
    /\ LedgerIdle

NextMain ==
    \/ \E broken \in SUBSET Breakable : MainBuild(broken)
    \/ Next /\ received' <= MaxRunLines

SpecMain == InitMain /\ [][NextMain]_vars

---------------------------------------------------------------------------
\* The TruthLock ledger (imm_adapters/truthlock.py).  One TruthLockWriter is
\* constructed on a path and driven through write(); verify() of a
\* TruthLockVerifier on the same path is a function of the file.
\*
\* A line of the file is [t |-> "json", items |-> the members of the object,
\* in the order they are written] or [t |-> "blank"].  A record is a function
\* from keys to values.

\* bound: write() calls of the writer
MaxAppends == 3

\* hashlib.sha256(line.encode("utf-8")).hexdigest(): a string that stands for
\* the line it was computed from (no two lines of a run have the same digest)
Sha256(l) == [t |-> "sha256", of |-> l]

\* the keys that occur in the records, in the order sort_keys=True puts them
SortedKeys == <<"a", "prev", "z">>

\* json.dumps(obj, separators=(",", ":"), sort_keys=True): the members of
\* the object in key order, on one line
Dumps(obj) ==
    LET ks == SelectSeq(SortedKeys, LAMBDA k : k \in DOMAIN obj)
    IN [t |-> "json", items |-> [i \in 1..Len(ks) |-> <<ks[i], obj[ks[i]]>>]]

\* json.loads(line): the object with the members of the line;
\* JSONDecodeError for a line that is no JSON text
Loads(l) ==
    IF l.t # "json" THEN Raise
    ELSE [k \in {l.items[i][1] : i \in 1..Len(l.items)} |->
             l.items[CHOOSE i \in 1..Len(l.items) : l.items[i][1] = k][2]]

\* the records given to write(): without a key "prev", and with one (the
\* empty string, another string, None)
LedgerRecords ==
    {("a" :> Num(1)),
     ("z" :> Num(2)),
     ("a" :> Num(1)) @@ ("z" :> Num(2)),
     ("prev" :> Str(<<>>)),
     ("prev" :> Str(<<"x">>)) @@ ("a" :> Num(1)),
     ("prev" :> None)}

\* what is at the path when the writer is constructed: nothing, an empty
\* file, or the ledger an earlier writer left (one record; with a blank line
\* after it)
LedgerFiles ==
    LET first == Dumps(("a" :> Num(1)) @@ ("prev" :> Str(<<>>)))
    IN {[exists |-> FALSE, lines |-> <<>>],
        [exists |-> TRUE, lines |-> <<>>],
        [exists |-> TRUE, lines |-> <<first>>],
        [exists |-> TRUE, lines |-> <<first, [t |-> "blank"]>>]}

\* TruthLockWriter.__post_init__ on file f: a missing file is created empty;
\* otherwise the tip is the hash of the last line that is not blank, or None
\* when there is none
PostInit(f) ==
    LET full == {i \in 1..Len(f.lines) : f.lines[i].t # "blank"}
        last_line == f.lines[CHOOSE i \in full : \A j \in full : j <= i]
    IN IF ~f.exists THEN [ledger |-> <<>>, _tip |-> None]
       ELSE [ledger |-> f.lines,
             _tip |-> IF full # {} THEN Sha256(last_line) ELSE None]

\* TruthLockWriter.write(record): the payload is {"prev": tip or "", **record},
\* so a key "prev" of the record replaces the link; the line is appended to
\* the file, its hash becomes the tip and is returned
TruthLockWrite(record) ==
    /\ nappend < MaxAppends
    /\ LET payload == record @@ ("prev" :> Or(_tip, Str(<<>>)))
           line == Dumps(payload)
           tip == Sha256(line)
       IN /\ ledger' = Append(ledger, line)
          /\ _tip' = tip
          /\ returned' = tip
    /\ nappend' = nappend + 1
    /\ UNCHANGED <<servervars, sinkvars, callvars>>

\* the loop of TruthLockVerifier.verify() from line i of file f on: blank
\* lines are skipped; a line that is no JSON, or whose "prev" (default "")
\* differs from the hash of the line before it, ends the loop with ok = False
RECURSIVE VerifyFrom(_, _, _, _)
VerifyFrom(f, i, previous_hash, count) ==
    IF i > Len(f) THEN [ok |-> TRUE, lines |-> count, tip |-> previous_hash]
    ELSE IF f[i].t = "blank" THEN VerifyFrom(f, i + 1, previous_hash, count)
    ELSE IF Loads(f[i]) = Raise
         THEN [ok |-> FALSE, lines |-> count + 1, tip |-> previous_hash]
    ELSE IF (IF "prev" \in DOMAIN Loads(f[i]) THEN Loads(f[i])["prev"] ELSE Str(<<>>))
               # previous_hash
         THEN [ok |-> FALSE, lines |-> count + 1, tip |-> previous_hash]
    ELSE VerifyFrom(f, i + 1, Sha256(f[i]), count + 1)

\* TruthLockVerifier(path).verify() on the writer's file, which exists once
\* the writer is constructed
verify == VerifyFrom(ledger, 1, Str(<<>>), 0)

InitLedger ==
    /\ ServerIdle
    /\ SinkIdle
    /\ CallIdle
    /\ \E f \in LedgerFiles :
          /\ ledger = PostInit(f).ledger
          /\ _tip = PostInit(f)._tip
    /\ returned = NotCalled
    /\ nappend = 0

NextLedger == \E record \in LedgerRecords : TruthLockWrite(record)

SpecLedger == InitLedger /\ [][NextLedger]_vars

---------------------------------------------------------------------------
\* Properties

Called(j) == \E k \in 1..Len(fan.calls) : fan.calls[k] = j

\* C1: sink isolation: when one sink's write raises for a record, write is
\* still called for that record on every sink configured after the failing one.
C1_SinkIsolation ==
    fan.raised # 0 => \A j \in SinkIds : j > fan.raised => Called(j)

\* C2: a sink's exception never ends a dispatch worker: until the workers are
\* cancelled at shutdown every worker is in its loop, ready to dequeue.
C2_WorkersKeepRunning ==
    \A w \in Workers :
        \/ wpc[w] = "get"
        \/ wpc[w] = "cancelled" /\ phase \in {"closing", "exited"}

\* a worker whose last fan-out raised is back in queue.get with a row waiting
C2_Witness ==
    /\ fan.raised # 0
    /\ phase = "serving"
    /\ wpc[fan.worker] = "get"
    /\ queue # <<>>

\* rec is a record with every required field present
HasRequired(rec) ==
    /\ rec # None /\ rec # Raise
    /\ \A k \in required : rec[k] # None /\ rec[k] # Raise
    /\ rec.symbol # Str(<<>>)

\* C3: every row in the queue, and every row a suspended put holds for it, has
\* a non-null timestamp, a non-empty symbol and non-null open, high, low,
\* close and volume.
C3_QueuedRowsComplete ==
    /\ \A i \in 1..Len(queue) : HasRequired(queue[i].rec)
    /\ \A c \in Conns : hpc[c] = "put" => HasRequired(hrow[c].rec)

\* a row is queued after a line was dropped
C3_Witness == queue # <<>> /\ dropped > 0

\* C4: for every accepted capacity the queue never holds more rows than the
\* capacity.
C4_QueueBound == Len(queue) <= max_queue

C6_PerLineAccounting == received = parsed + dropped

\* C7: whatever a line holds, the handler that read it stays in its read loop
\* (or in the put of that line's record): a line never ends the connection.
C7_BadLineKeepsConnection ==
    [][received' = received + 1 =>
        \A c \in Conns : hpc[c] = "open" => hpc'[c] \in {"open", "put"}]_vars

\* C8: the rows of one connection are in the queue in the order their lines
\* were read, and a row held by a suspended put is later than every queued row
\* of its connection.
C8_PerConnectionOrder ==
    /\ \A i, j \in 1..Len(queue) :
          (i < j /\ queue[i].conn = queue[j].conn) => queue[i].seq < queue[j].seq
    /\ \A c \in Conns : hpc[c] = "put" =>
          \A i \in 1..Len(queue) : queue[i].conn = c => queue[i].seq < hrow[c].seq

\* a connection has a row in the queue while its handler is suspended with the
\* next one, and a row of the other connection is queued too
C8_Witness ==
    \E c \in Conns :
        /\ hpc[c] = "put"
        /\ \E i \in 1..Len(queue) : queue[i].conn = c
        /\ \E i \in 1..Len(queue) : queue[i].conn # c

\* C9: main() calls close() on the sinks in configured order, each once, on
\* all of them before it exits and on none before serve() has ended; what a
\* close() raises is not propagated.
C9_CloseAllInOrder ==
    /\ closed = [i \in 1..Len(closed) |-> i]
    /\ closeRaised \subseteq {closed[k] : k \in 1..Len(closed)}
    /\ phase = "exited" => Len(closed) = NumSinks
    /\ phase \in {"starting", "serving", "stopping"} => closed = <<>>
    /\ exc \in {"", "KeyboardInterrupt", "OSError"}

\* main() has left after the first sink's close() raised
C9_Witness == phase = "exited" /\ 1 \in closeRaised /\ NumSinks > 1

\* C10: once the closing of sinks has begun the listener accepts nothing, no
\* worker and no handler is running and no row is dispatched; no sink is
\* closed before that, and main() exits only after every sink was closed.
C10_ExitProtocol ==
    [][/\ phase \in {"stopping", "closing", "exited"} =>
            \A c \in Conns : hpc[c] = "idle" => hpc'[c] = "idle"
       /\ phase' \in {"closing", "exited"} =>
            /\ \A w \in Workers : wpc'[w] # "get"
            /\ \A c \in Conns : hpc'[c] \in {"idle", "closed"}
       /\ phase \in {"closing", "exited"} =>
            /\ ndisp' = ndisp /\ fan' = fan /\ queue' = queue
            /\ phase' \in {"closing", "exited"}
       /\ closed' # closed => phase = "closing"
       /\ phase' = "exited" => Len(closed') = NumSinks]_vars

\* main() has exited after an interrupt that came while rows were queued
C10_Witness ==
    phase = "exited" /\ exc = "KeyboardInterrupt" /\ ndisp > 0 /\ queue # <<>>

---------------------------------------------------------------------------
\* Properties of the sinks (SpecSinks)

\* rows from..to, in order
Rows(from, to) == [i \in 1..(to - from + 1) |-> from + i - 1]

\* every call so far came within 1.0 s of the construction of the sink, so
\* never more than 1.0 s after the last flush
RapidSuccession == now <= FlushAfter * TicksPerSecond

\* C11: with no insert error and never more than 1.0 s since the last flush,
\* the SQLite sink has committed exactly one transaction per 250 rows written,
\* the k-th holding rows 250(k-1)+1 .. 250k, and buffers the rest; a close()
\* commits the rest as one more transaction.  After 251 writes: one
\* transaction of rows 1..250 and row 251 buffered, which close() commits.
C11_CountTriggeredFlush ==
    (kind = "sqlite" /\ errors = 0 /\ late = 0 /\ RapidSuccession) =>
        LET full == nwritten \div BatchSize
            Batches == [k \in 1..full |-> Rows(BatchSize * (k - 1) + 1, BatchSize * k)]
            Rest == Rows(BatchSize * full + 1, nwritten)
        IN IF nclose = 0
           THEN commits = Batches /\ _batch = Rest /\ bars = Rows(1, BatchSize * full)
           ELSE /\ commits = (IF Rest = <<>> THEN Batches ELSE Append(Batches, Rest))
                /\ _batch = <<>>
                /\ bars = Rows(1, nwritten)

\* 251 rows were written in rapid succession and the sink was closed: the
\* first transaction holds rows 1..250, the second row 251
C11_Witness ==
    /\ kind = "sqlite" /\ errors = 0 /\ RapidSuccession
    /\ nwritten = BatchSize + 1
    /\ nclose = 1
    /\ Len(commits) = 2
    /\ commits[1] = Rows(1, BatchSize)
    /\ commits[2] = <<BatchSize + 1>>

\* C12: after writes followed by close(), with no insert error, the buffer of
\* the SQLite sink is empty, the connection is closed and table bars holds the
\* rows written, each once, in write order.
C12_CloseFlushesAll ==
    (kind = "sqlite" /\ nclose >= 1 /\ late = 0 /\ errors = 0) =>
        /\ _batch = <<>>
        /\ txn = <<>>
        /\ conn = "closed"
        /\ bars = Rows(1, nwritten)

\* the sink was closed after a flush on time and with rows left in the buffer
C12_Witness ==
    /\ kind = "sqlite" /\ nclose = 1 /\ late = 0 /\ errors = 0
    /\ ~RapidSuccession
    /\ Len(commits) = 2
    /\ Len(commits[2]) >= 2

\* C13: while the SQLite sink is open, rows are buffered only up to 1.0 s
\* after the last flush.
C13_BufferedAtMostOneSecond ==
    (kind = "sqlite" /\ conn = "open" /\ errors = 0 /\ _batch # <<>>) =>
        (now - _last_flush) <= FlushAfter * TicksPerSecond

\* the rows of all files, the files in path order
FileRows ==
    LET paths == DOMAIN files
        RECURSIVE Cat(_)
        Cat(S) == IF S = {} THEN <<>>
                  ELSE LET q == CHOOSE x \in S : \A y \in S : x.day <= y.day
                       IN files[q] \o Cat(S \ {q})
    IN Cat(paths)

\* what the sink has delivered: the lines printed, the rows of the files, the
\* committed rows of bars, the messages on the topic
Output ==
    CASE kind = "stdout" -> printed
      [] kind = "file" -> FileRows
      [] kind = "sqlite" -> bars
      [] OTHER -> delivered

\* how often row r was delivered
Copies(r) == Cardinality({i \in 1..Len(Output) : Output[i] = r})

\* C14: every write() of the rotating-file sink, in a run of writes without
\* failure, appends its row to the file of the path rendered at that moment
\* and leaves the other files as they are; so every row written is in exactly
\* one file, the rows of a file are in write order, and the rows of an earlier
\* date's file were all written before those of a later date's file.
C14_RotationByRenderedPath ==
    [][(kind = "file" /\ nwritten' = nwritten + 1 /\ nclose' = 0 /\ errors' = 0) =>
          /\ ~last'.raised
          /\ _render_path \in DOMAIN files'
          /\ files'[_render_path] =
                Append(IF _render_path \in DOMAIN files THEN files[_render_path] ELSE <<>>,
                       nwritten')
          /\ \A q \in DOMAIN files' \ {_render_path} : q \in DOMAIN files /\ files'[q] = files[q]
          /\ \A r \in 1..nwritten' :
                Cardinality({<<q, i>> \in {<<x, j>> \in (DOMAIN files') \X (1..nwritten') :
                                              j <= Len(files'[x])} : files'[q][i] = r}) = 1
          /\ \A q \in DOMAIN files' : \A i, j \in 1..Len(files'[q]) :
                i < j => files'[q][i] < files'[q][j]
          /\ \A q1, q2 \in DOMAIN files' : q1.day < q2.day =>
                \A i \in 1..Len(files'[q1]), j \in 1..Len(files'[q2]) :
                    files'[q1][i] < files'[q2][j]]_vars

\* C15: when the only failures are write() calls that raised, a row whose
\* write() raised is never delivered to the sink afterwards, and no other row
\* is affected: a row whose write() returned is delivered at most once, and
\* once the sink has been closed (the broker within reach) exactly once.
C15_NoRetry ==
    errors <= Cardinality(wfailed) =>
        /\ \A r \in wfailed : Copies(r) = 0
        /\ \A r \in (1..nwritten) \ wfailed :
              /\ Copies(r) <= 1
              /\ (last.op = "close" /\ ~last.raised /\ late = 0 /\ (kind = "kafka" => broker_up))
                    => Copies(r) = 1

\* what a close() may change: the fields of the sink and its output
SinkState ==
    <<printed, fp, current_path, files, _batch, _last_flush, conn, bars, txn, pending,
      delivered>>

---------------------------------------------------------------------------
\* Properties of _parse_line (SpecParse)

\* the value a line gives under the first of `keys` it has (an object), or
\* in field `i` (CSV); Absent when it has none
RawField(l, keys, i) ==
    CASE l.enc = "json" ->
           IF \E j \in 1..Len(keys) : keys[j] \in DOMAIN l.obj
           THEN l.obj[keys[CHOOSE j \in 1..Len(keys) :
                              /\ keys[j] \in DOMAIN l.obj
                              /\ \A h \in 1..(j - 1) : keys[h] \notin DOMAIN l.obj]]
           ELSE Absent
      [] l.enc = "csv" -> IF i <= Len(l.parts) THEN Str(l.parts[i]) ELSE Absent
      [] OTHER -> Absent

RawTimestamp(l) == RawField(l, <<"timestamp", "time", "date", "datetime">>, 1)

RawSymbol(l) == RawField(l, <<"symbol", "sym">>, 2)

RawNumber(l, k) == RawField(l, <<k>>, CHOOSE j \in 1..Len(keys_guess) : keys_guess[j] = k)

NumericFields == {"open", "high", "low", "close", "volume"}

\* the field is missing: no key, null, or the empty string
IsMissing(v) == v \in {Absent, None, Str(<<>>)}

\* a required field of the line is missing or cannot be parsed, or the symbol
\* is empty after trimming
RequiredBad(l) ==
    \/ IsMissing(RawTimestamp(l)) \/ RawTimestamp(l) \in {Str(Garbage), Str(TsBadMonth)}
    \/ IsMissing(RawSymbol(l)) \/ RawSymbol(l) = Str(<<" ", " ">>)
    \/ \E k \in NumericFields :
          IsMissing(RawNumber(l, k)) \/ RawNumber(l, k) = Str(<<"a", "b", "c">>)

\* the line without its optional fields
WithoutOptional(l) ==
    IF l.enc = "json"
    THEN [l EXCEPT !.obj = [k \in DOMAIN l.obj \ {"delta_phi", "regime", "capsule_id"} |-> l.obj[k]]]
    ELSE l

\* C17: _parse_line returns None for every line in which a required field is
\* missing, cannot be parsed or, for the symbol, is empty after trimming; and
\* whether it returns None does not depend on delta_phi, regime and capsule_id.
C17_RejectsIncomplete ==
    out_rec # NotCalled =>
        /\ RequiredBad(in_line) => out_rec = None
        /\ out_rec = None <=> _parse_line(WithoutOptional(in_line)) = None

\* "2024-01-02T00:00:00Z"
TsMidnight == [TsIsoZ EXCEPT ![12] = "0", ![13] = "0"]

\* "2024-01-02T10:20:00Z"
Ts1020 == [TsIsoZ EXCEPT ![15] = "2"]

\* "1970-01-01T00:00:00Z"
TsEpoch0 ==
    [TsIsoZ EXCEPT ![1] = "1", ![2] = "9", ![3] = "7", ![4] = "0", ![10] = "1",
                   ![12] = "0", ![13] = "0"]

\* the ISO-8601 UTC rendering of the timestamps in a supported form
ExpectedTimestamp(v) ==
    CASE v \in {Str(TsIsoZ), Str(TsT), Str(TsSpace), Str(TsSlash), Str(TsPlain)} -> Str(TsIsoZ)
      [] v = Str(TsDate) -> Str(TsMidnight)
      [] v = Num(1704190800) -> Str(Ts1020)
      [] v = Num(0) -> Str(TsEpoch0)
      [] OTHER -> None

\* the symbol, trimmed and in upper case
ExpectedSymbol(v) ==
    CASE v = Str(<<"E", "S">>) -> Str(<<"E", "S">>)
      [] v = Str(<<" ", "n", "q", " ">>) -> Str(<<"N", "Q">>)
      [] OTHER -> None

\* the float a numeric value parses to
ExpectedNumber(v) ==
    CASE v \in {Num(100), Str(<<"1", "0", "0">>), Str(<<" ", "1", "0", "0", " ">>)} -> Num(100)
      [] v \in {Num(1), Str(<<"1">>)} -> Num(1)
      [] v = Num(0) -> Num(0)
      [] OTHER -> None

\* the seven required fields are present, the timestamp in a supported form,
\* the numbers numeric
WellFormed(l) ==
    /\ l.enc \in {"json", "csv"}
    /\ ExpectedTimestamp(RawTimestamp(l)) # None
    /\ ExpectedSymbol(RawSymbol(l)) # None
    /\ \A k \in NumericFields : ExpectedNumber(RawNumber(l, k)) # None

\* C18: for every well-formed line _parse_line returns a record whose
\* timestamp is the ISO-8601 UTC rendering with Z, whose symbol is trimmed and
\* in upper case and whose numeric fields are the parsed floats.
C18_AcceptsWellFormed ==
    (out_rec # NotCalled /\ WellFormed(in_line)) =>
        /\ out_rec \notin {None, Raise}
        /\ out_rec.timestamp = ExpectedTimestamp(RawTimestamp(in_line))
        /\ out_rec.symbol = ExpectedSymbol(RawSymbol(in_line))
        /\ \A k \in NumericFields : out_rec[k] = ExpectedNumber(RawNumber(in_line, k))

\* C19: _parse_line applied to the line emitted for a record it returned
\* returns that record, field by field (a NaN field is NaN again).
C19_RoundTrip ==
    out_back # NotCalled =>
        /\ out_back \notin {None, Raise}
        /\ \A k \in DOMAIN out_rec : out_back[k] = out_rec[k]

\* a record made from a CSV line in a fallback format and with a lower-case
\* symbol came back from its emitted line
C19_Witness ==
    /\ out_back \notin {NotCalled, None, Raise}
    /\ in_line.enc = "csv"
    /\ in_line.parts[1] = TsSlash
    /\ in_line.parts[2] = <<" ", "n", "q", " ">>
    /\ out_back.symbol = Str(<<"N", "Q">>)
    /\ out_back.timestamp = Str(TsIsoZ)

---------------------------------------------------------------------------
\* Properties of build_sinks (SpecBuild)

\* the class a name of the list stands for, "" for a name that stands for none
ClassOfName(raw) ==
    CASE raw = <<"s", "t", "d", "o", "u", "t">> -> "stdout"
      [] raw = <<" ", "F", "i", "l", "e", " ">> -> "file"
      [] raw = <<"s", "q", "l", "i", "t", "e">> -> "sqlite"
      [] raw = <<"K", "A", "F", "K", "A">> -> "kafka"
      [] OTHER -> ""

\* the classes of the recognized names of the argument, in the order of the names
RecognizedClasses ==
    SelectSeq([i \in 1..Len(Split(sink_arg)) |-> ClassOfName(Split(sink_arg)[i])],
              LAMBDA c : c # "")

\* C20: the list build_sinks returns has one sink per recognized name of the
\* --sink list, in the order of the names, nothing for unknown and empty
\* names, and is never empty: with no recognized name it is one console sink.
C20_BuildSinks ==
    (sinks # NotCalled /\ sinks # Raise) =>
        /\ sinks.v # <<>>
        /\ sinks.v = (IF RecognizedClasses = <<>> THEN <<"stdout">> ELSE RecognizedClasses)

\* build_sinks returned the console sink for a list of an unknown and an
\* empty name
C20_Witness ==
    /\ sink_arg = <<"b", "o", "g", "u", "s", ",">>
    /\ sinks = List(<<"stdout">>)

---------------------------------------------------------------------------
\* Properties of main() (SpecMain)

\* C21: when the construction of a requested sink fails, main() ends with the
\* failure and the server never starts: the listener is never opened, no
\* worker task is created, no connection is accepted and no line is read.
C21_NoStartWithoutSinks ==
    sinks = Raise =>
        /\ phase = "exited" /\ exc = "SinkInitError"
        /\ \A w \in Workers : wpc[w] = "none"
        /\ \A c \in Conns : hpc[c] = "idle"
        /\ received = 0 /\ parsed = 0 /\ queue = <<>> /\ ndisp = 0

\* the broker sink was requested after the console sink and its constructor raised
C21_Witness ==
    /\ sinks = Raise
    /\ phase = "exited"
    /\ sink_arg = <<"s", "t", "d", "o", "u", "t", ",", "K", "A", "F", "K", "A">>

---------------------------------------------------------------------------
\* Properties of the running server (Spec)

\* C22: when a handler ends, by end of stream or by an error, its connection
\* is closed, and nothing else changes: the listener stays as it was, every
\* other handler and every worker stays where it was, and the queue keeps its
\* rows, so that connections are accepted and rows dispatched as before.
C22_ErrorConfined ==
    [][\A c \in Conns :
         (hend[c] = "" /\ hend'[c] \in {"eof", "error"}) =>
            /\ hpc'[c] = "closed"
            /\ \A b \in Conns \ {c} : hpc'[b] = hpc[b] /\ hend'[b] = hend[b] /\ hrow'[b] = hrow[b]
            /\ wpc' = wpc /\ \A w \in Workers : wpc'[w] = "get"
            /\ phase' = phase /\ exc' = exc
            /\ queue' = queue]_vars

\* one connection has ended with an error while the server is serving; the
\* other connection is open and the last line read, one of its lines, is queued
C22_Witness ==
    \E c \in Conns :
        /\ hend[c] = "error"
        /\ phase = "serving"
        /\ \E b \in Conns \ {c} : hpc[b] = "open"
        /\ \A w \in Workers : wpc[w] = "get"
        /\ \E i \in 1..Len(queue) : queue[i].conn # c /\ queue[i].seq = received /\ received > 1

\* C24: for the row a worker has dequeued, write was called on the sinks in
\* configured order, on each sink at most once, and, when no write raised, on
\* every sink, all within the pass that dequeued the row: the worker is back
\* at queue.get.
C24_FanOutInOrder ==
    fan.worker # 0 =>
        /\ fan.calls = [i \in 1..Len(fan.calls) |-> i]
        /\ Len(fan.calls) <= NumSinks
        /\ fan.raised = 0 => Len(fan.calls) = NumSinks
        /\ wpc[fan.worker] \in {"get", "cancelled"}

\* a worker made its second fan-out, over all the sinks, none of which raised
C24_Witness ==
    /\ ndisp = 2
    /\ fan.raised = 0
    /\ Len(fan.calls) = NumSinks
    /\ fan.calls[NumSinks] = NumSinks

\* C25: rows leave the queue in the order in which they were enqueued,
\* whichever worker takes them: the rows that wait are in enqueue order, the
\* oldest next to leave, and the n-th row dequeued is the n-th row enqueued.
C25_QueueFifo ==
    /\ \A i \in 1..Len(queue) : queue[i].enq = ndisp + i
    /\ fan.worker # 0 => fan.row = ndisp

\* a row was dequeued, and the row that waits was read after the row that a
\* suspended handler still holds: it was enqueued first all the same
C25_Witness ==
    /\ ndisp = 1
    /\ \E c \in Conns : hpc[c] = "put" /\ queue # <<>> /\ queue[1].seq > hrow[c].seq

\* C27: a row that is dequeued goes to one worker, leaves the queue with that
\* step and was never dequeued before, so that no row is handed to the sinks
\* twice.
C27_DequeuedOnce ==
    [][ndisp' = ndisp + 1 =>
         /\ queue # <<>>
         /\ fan'.worker \in Workers
         /\ fan'.row = Head(queue).enq
         /\ fan'.row > fan.row
         /\ \A i \in 1..Len(queue') : queue'[i].enq > fan'.row
         /\ \A c \in Conns : hpc'[c] = "put" => hrow'[c].enq = 0]_vars

\* the two workers have each dequeued a row, worker 1 after worker 2, while a
\* third row waits
C27_Witness ==
    /\ ndisp = 2
    /\ fan.worker = 1
    /\ fan.row = 2
    /\ queue # <<>>

Suspended == {c \in Conns : hpc[c] = "put"}

\* C30 as claimed: in every reachable state the accepted counter equals the
\* rows dequeued plus the rows in the queue plus the handlers suspended in put.
C30_Conservation ==
    parsed = ndisp + Len(queue) + Cardinality(Suspended)

\* C30 amended: until shutdown cancels the tasks, the accepted counter equals
\* the rows dequeued plus the rows in the queue plus the handlers suspended in
\* put; the rows are those that were enqueued, each once.  Shutdown discards
\* the row of a handler it cancels in put: from then on the accepted counter
\* is the sum or more, and the rows enqueued are still all dequeued or queued.
C30_ConservationUntilShutdown ==
    /\ phase \in {"starting", "serving", "stopping"} =>
          parsed = ndisp + Len(queue) + Cardinality(Suspended)
    /\ parsed >= ndisp + Len(queue) + Cardinality(Suspended)
    /\ nenq = ndisp + Len(queue)

\* a row was dequeued, a row waits and a handler is suspended in put
C30_Witness ==
    /\ ndisp > 0
    /\ queue # <<>>
    /\ Suspended # {}
    /\ phase = "serving"

---------------------------------------------------------------------------
\* Properties of the metrics report (SpecMetrics)

\* C23: a report is printed only in a step in which a worker dispatched a row,
\* at the clock reading of that step, and any two reports are at least 10
\* seconds apart; a step that dispatches no row prints no report.
C23_ReportWindow ==
    [][/\ reports' # reports =>
            /\ ndisp' = ndisp + 1
            /\ reports' = Append(reports, clock')
       /\ ndisp' = ndisp => reports' = reports
       /\ \A i, j \in 1..Len(reports') :
             i < j => reports'[j] - reports'[i] >= LogEvery]_vars

\* two reports were printed, one after each of two rows, and the server is
\* still serving
C23_Witness ==
    /\ Len(reports) = 2
    /\ ndisp = 2
    /\ phase = "serving"

\* ---------------------------------------------------------------------------
\* Properties of the rotation step (SpecSinks)
\* ---------------------------------------------------------------------------

\* C26: a write() of the rotating-file sink that finds the rendered path
\* different from current_path, and that the environment does not make fail,
\* opens an append handle on the rendered path, makes it the current path and
\* appends the row to that file without raising; this also when the rendered
\* path lies in a directory that does not exist yet.
C26_RotationStep ==
    [][(/\ kind = "file"
        /\ nwritten' = nwritten + 1
        /\ errors' = errors
        /\ _render_path # current_path) =>
          /\ ~last'.raised
          /\ current_path' = _render_path
          /\ fp' = [path |-> _render_path, open |-> TRUE]
          /\ _render_path \in DOMAIN files'
          /\ files'[_render_path] =
                Append(IF _render_path \in DOMAIN files THEN files[_render_path] ELSE <<>>,
                       nwritten')]_vars

\* ---------------------------------------------------------------------------
\* Properties of delivery in a run without shutdown (SpecLive)
\* ---------------------------------------------------------------------------

\* C29: in a run without shutdown where the workers are scheduled fairly,
\* every row in the queue is eventually dequeued and handed to the sinks, and
\* every handler suspended in queue.put eventually resumes and enqueues its
\* row.
C29_DeliveryLiveness ==
    /\ \A n \in 1..MaxLines :
          (\E i \in 1..Len(queue) : queue[i].enq = n) ~> (fan.worker # 0 /\ fan.row = n)
    /\ \A c \in Conns : (hpc[c] = "put") ~> (hpc[c] = "open" /\ hrow[c] = None)

\* another handler's row joins the queue while handler c waits in queue.put
Overtaken(c) == hpc[c] = "put" /\ hpc'[c] = "put" /\ Len(queue') > Len(queue)

\* C29, amended: in a run without shutdown where the workers are scheduled
\* fairly, every row in the queue is eventually dequeued and handed to the
\* sinks; a handler suspended in queue.put is not suspended for ever unless
\* rows of other handlers keep joining the queue ahead of it.
C29_DeliveryUnlessOvertaken ==
    /\ \A n \in 1..MaxLines :
          (\E i \in 1..Len(queue) : queue[i].enq = n) ~> (fan.worker # 0 /\ fan.row = n)
    /\ \A c \in Conns : []<>(hpc[c] # "put") \/ []<><<Overtaken(c)>>_vars

\* a handler suspended on the full queue still waits in queue.put with its
\* row after the workers have emptied the queue and the counts have started
\* again
C29_Witness ==
    /\ phase = "serving"
    /\ \E c \in Conns : hpc[c] = "put" /\ hrow[c] # None /\ received = 1 /\ ndisp = 0
    /\ fan.worker # 0
    /\ queue = <<>>

\* ---------------------------------------------------------------------------
\* Properties of the sinks' buffers and handles (SpecSinks)
\* ---------------------------------------------------------------------------

\* C31: after every call of SQLiteSink.write, whether it returned or raised,
\* the batch in memory holds fewer than 250 rows.
C31_BatchBelowBatchSize == kind = "sqlite" => Len(_batch) < BatchSize

\* C32: whenever current_path of the rotating-file sink equals the path
\* rendered now, fp is an open handle on that path; so the assertion in
\* write() holds and write() never writes to a closed handle.
C32_HandleOnCurrentPath ==
    (kind = "file" /\ current_path = _render_path) =>
        IF fp = None THEN FALSE ELSE fp.open /\ fp.path = current_path

\* ---------------------------------------------------------------------------
\* Properties of the TruthLock ledger (SpecLedger)
\* ---------------------------------------------------------------------------

\* C33: after one or more write() calls of the writer, on a new file or on a
\* ledger that existed, verify() returns ok = True, the number of records in
\* the file as lines, and the writer's tip, which is the hash the last
\* write() returned.
C33_LedgerVerifies ==
    nappend >= 1 =>
        /\ returned = _tip
        /\ verify = [ok |-> TRUE,
                     lines |-> Cardinality({i \in 1..Len(ledger) : ledger[i].t # "blank"}),
                     tip |-> _tip]

====
